---- MODULE Spec2Model ----
(***************************************************************************)
(* A model of the RAG service's chunker                                    *)
(* (DocumentProcessor._create_chunks), hybrid ranker                       *)
(* (HybridSearch.search / _combine_search_results), result formatter       *)
(* (LLMService.format_search_results), single-branch search endpoints      *)
(* (POST /search/vector, POST /search/keyword), the endpoints POST /search, *)
(* POST /ingest and DELETE /admin/reset, and of the quote generator's       *)
(* worksheet update (XMLQuoteGenerator._update_worksheet_xml).              *)
(*                                                                         *)
(* Text is a sequence of characters drawn from four classes: an ordinary   *)
(* character "x", the sentence terminator ".", the space " " (the only     *)
(* character rfind(' ') finds) and the newline "\n" (whitespace for        *)
(* str.strip, but not a word boundary for rfind(' ')).                     *)
(* Positions are 0-based as in Python; a TLA+ sequence is 1-based, so      *)
(* position p of the text is text[p + 1].                                  *)
(***************************************************************************)
EXTENDS Integers, Sequences, FiniteSets, TLC

VARIABLES
    \* ---- DocumentProcessor._create_chunks ----
    text,           \* the document text
    chunk_size,     \* parameter
    chunk_overlap,  \* parameter
    start,          \* local: window start
    end,            \* local: window end (after boundary snapping)
    chunk_index,    \* local: next index to hand out
    chunks,         \* local: the list being built, returned at "done"
    skipped,        \* history: the windows <<start, end>> whose trimmed slice was empty
    cpc,            \* control point: "call", "while", "body", "done", "capped"
    \* ---- HybridSearch.search ----
    limit,            \* parameter
    vector_weight,    \* parameter, normalized in place by the call
    keyword_weight,   \* parameter, normalized in place by the call
    passed_weights,   \* history: <<vector_weight, keyword_weight>> as the caller passed them
    vector_task,      \* the search_similar awaitable: [status, limit, result]
    keyword_task,     \* the search_text awaitable: [status, limit, result]
    search_results,   \* the list search returns
    spc,              \* control point: "call", "gather", "returned", "raised"
    \* ---- LLMService.format_search_results ----
    request,            \* parameters: [search_results, text_only, llm_format, provider]
    openai_client,      \* self.openai_client is set
    formatted_results,  \* local: the list built by the per-result loop
    next_result,        \* local: position of the per-result loop in search_results
    llm_content,        \* the content handed to the LLM call in flight
    llm_log,            \* history: the outcome of every LLM call made, in order
    payload,            \* the dict format_search_results returns
    fpc,                \* control point: "call", "llm_text", "loop", "llm_result", "returned"
    \* ---- POST /search/vector, POST /search/keyword ----
    api_request,        \* [route, limit]
    store_task,         \* the store query awaited by search_*_only: [status, limit, result]
    http_response,      \* [status, body]
    apc,                \* control point: "call", "await", "responded"
    \* ---- POST /search, POST /ingest, DELETE /admin/reset ----
    ep_request,         \* the request: [route, ...]
    file_path,          \* ingest_document: "unbound" until the local file_path is assigned
    upload_exists,      \* the temporary upload file exists on disk
    upload_written,     \* history: the handler created the temporary upload file
    collections,        \* reset_database: the list list_collections returned
    next_collection,    \* reset_database: position of the loop in collections
    reset_results,      \* reset_database: the dict being built
    dropped,            \* history: the collections whose drop succeeded, in order
    ep_response,        \* [status, ...]
    epc,                \* control point
    \* ---- XMLQuoteGenerator._update_worksheet_xml ----
    products,           \* parameter: the list of product dicts
    worksheet_found,    \* sheet1.xml exists and has a sheetData element
    template,           \* history: the rows of sheetData at the call
    sheet_data,         \* the row elements of sheetData, in document order
    content_after_23,   \* local: the copies of the rows after row 23
    current_row,        \* local of the loop running
    next_item,          \* position of the loop running in its list
    total_gamt,         \* local of _insert_product_rows
    total_row_num,      \* local
    qpc                 \* control point

chunkVars == <<text, chunk_size, chunk_overlap, start, end, chunk_index, chunks, skipped, cpc>>

searchVars == <<limit, vector_weight, keyword_weight, passed_weights, vector_task,
                keyword_task, search_results, spc>>

formatVars == <<request, openai_client, formatted_results, next_result, llm_content,
                llm_log, payload, fpc>>

apiVars == <<api_request, store_task, http_response, apc>>

endpointVars == <<ep_request, file_path, upload_exists, upload_written, collections,
                  next_collection, reset_results, dropped, ep_response, epc>>

quoteVars == <<products, worksheet_found, template, sheet_data, content_after_23,
               current_row, next_item, total_gamt, total_row_num, qpc>>

vars == <<chunkVars, searchVars, formatVars, apiVars, endpointVars, quoteVars>>

----------------------------------------------------------------------------
(* Bounds of the model *)

MaxLen == 4
MaxSize == 4

\* More chunks than a text of MaxLen characters can need; a run that emits
\* this many is cut off at control point "capped".
MaxChunks == MaxLen + 2

\* longest list a store query returns, and largest limit a caller passes
MaxResults == 2
MaxLimit == 2

----------------------------------------------------------------------------
(* Python helpers *)

Min(a, b) == IF a < b THEN a ELSE b
Max(a, b) == IF a > b THEN a ELSE b

SetMax(S) == CHOOSE m \in S : \A o \in S : o <= m

Chars == {"x", ".", " ", "\n"}

\* str.strip() removes these
Whitespace == {" ", "\n"}

Texts == UNION {[1..n -> Chars] : n \in 0..MaxLen}

\* How Python resolves a slice bound i against a string of length n:
\* a negative bound counts from the end, and both ends are clamped.
SliceIndex(i, n) == IF i < 0 THEN Max(i + n, 0) ELSE Min(i, n)

\* s[lo:hi]
Slice(s, lo, hi) ==
    LET a == SliceIndex(lo, Len(s))
        b == SliceIndex(hi, Len(s))
    IN  IF a < b THEN SubSeq(s, a + 1, b) ELSE << >>

\* s.rfind(c, lo, hi) for a one-character c: the highest position in
\* s[lo:hi] holding c, or -1.
rfind(s, c, lo, hi) ==
    LET a == SliceIndex(lo, Len(s))
        b == SliceIndex(hi, Len(s))
        hits == {p \in a..(b - 1) : s[p + 1] = c}
    IN  IF hits = {} THEN -1 ELSE SetMax(hits)

\* the first index at or after i, and the last at or before i, that holds a
\* character str.strip() keeps (Len(s) + 1 and 0 when there is none)
RECURSIVE FirstSolid(_, _)
FirstSolid(s, i) ==
    IF i > Len(s) \/ s[i] \notin Whitespace THEN i ELSE FirstSolid(s, i + 1)
RECURSIVE LastSolid(_, _)
LastSolid(s, i) ==
    IF i < 1 \/ s[i] \notin Whitespace THEN i ELSE LastSolid(s, i - 1)

\* s.strip()
strip(s) == SubSeq(s, FirstSolid(s, 1), LastSolid(s, Len(s)))

----------------------------------------------------------------------------
(* DocumentProcessor._create_chunks *)

\* the sentence/word look-back window, in characters
LookBack == 100

\* `if not text.strip(): return []`
IsBlank_OnlyEmpty(t) == t = << >>
IsBlank(t) == strip(t) = << >>

\* estimated_pages = max(1, total_chars // 2000)
CharsPerPage == 2000
EstimatedPages(t) == Max(1, Len(t) \div CharsPerPage)

\* int(min(estimated_pages, max(1, (start / total_chars) * estimated_pages + 1)))
\* for the starts at which a chunk is emitted (0 <= s < len(t)).
PageNumber_Countdown(t, s) ==
    Min(EstimatedPages(t), Max(1, EstimatedPages(t) - ((s * EstimatedPages(t)) \div Len(t))))
PageNumber(t, s) ==
    Min(EstimatedPages(t), Max(1, ((s * EstimatedPages(t)) \div Len(t)) + 1))

\* The window end for a window starting at s: start + chunk_size, snapped
\* back to a sentence end or a word boundary when it lies before the end of
\* the text.
SnapEnd_WholeWindow(t, s, size) ==
    LET e0 == s + size
        sentence_end == rfind(t, ".", s, e0)
        word_end == rfind(t, " ", s, e0)
    IN  IF e0 < Len(t)
        THEN IF sentence_end > s THEN sentence_end + 1
             ELSE IF word_end > s THEN word_end
             ELSE e0
        ELSE e0
SnapEnd(t, s, size) ==
    LET e0 == s + size
        search_start == Max(s, e0 - LookBack)
        sentence_end == rfind(t, ".", search_start, e0)
        word_end == rfind(t, " ", search_start, e0)
    IN  IF e0 < Len(t)
        THEN IF sentence_end > s THEN sentence_end + 1
             ELSE IF word_end > s THEN word_end
             ELSE e0
        ELSE e0

\* The dict appended to chunks.
MakeChunk_Swapped(chunk_text, idx, s, e, page) ==
    [text |-> chunk_text, chunk_index |-> idx, start_char |-> e, end_char |-> s,
     metadata |-> [chunk_size |-> Len(chunk_text), char_start |-> e,
                   char_end |-> s, page_number |-> page]]
MakeChunk(chunk_text, idx, s, e, page) ==
    [text |-> chunk_text, chunk_index |-> idx, start_char |-> s, end_char |-> e,
     metadata |-> [chunk_size |-> Len(chunk_text), char_start |-> s,
                   char_end |-> e, page_number |-> page]]

\* chunk_index after a window whose trimmed slice is chunk_text
NextChunkIndex_Always(idx, chunk_text) == idx + 1
NextChunkIndex(idx, chunk_text) == IF chunk_text # << >> THEN idx + 1 ELSE idx

\* `start = end - chunk_overlap`
NextStart_Gap(e, overlap) == e + 1
NextStart(e, overlap) == e - overlap

\* HybridSearch.search is not running.
SearchIdle ==
    /\ limit = 0
    /\ vector_weight = 0
    /\ keyword_weight = 0
    /\ passed_weights = <<0, 0>>
    /\ vector_task = "none"
    /\ keyword_task = "none"
    /\ search_results = << >>
    /\ spc = "idle"

\* LLMService.format_search_results is not running.
FormatIdle ==
    /\ request = "none"
    /\ openai_client = FALSE
    /\ formatted_results = << >>
    /\ next_result = 0
    /\ llm_content = << >>
    /\ llm_log = << >>
    /\ payload = "none"
    /\ fpc = "idle"

\* No single-branch search request is being served.
ApiIdle ==
    /\ api_request = "none"
    /\ store_task = "none"
    /\ http_response = "none"
    /\ apc = "idle"

\* No request for /search, /ingest or /admin/reset is being handled.
EndpointIdle ==
    /\ ep_request = "none"
    /\ file_path = "unbound"
    /\ upload_exists = FALSE
    /\ upload_written = FALSE
    /\ collections = << >>
    /\ next_collection = 0
    /\ reset_results = "none"
    /\ dropped = << >>
    /\ ep_response = "none"
    /\ epc = "idle"

\* _update_worksheet_xml is not running.
QuoteIdle ==
    /\ products = << >>
    /\ worksheet_found = FALSE
    /\ template = << >>
    /\ sheet_data = << >>
    /\ content_after_23 = << >>
    /\ current_row = 0
    /\ next_item = 0
    /\ total_gamt = 0
    /\ total_row_num = 0
    /\ qpc = "idle"

ChunkInit ==
    /\ text \in Texts
    /\ chunk_size \in 0..MaxSize
    /\ chunk_overlap \in 0..MaxSize
    /\ start = 0
    /\ end = 0
    /\ chunk_index = 0
    /\ chunks = << >>
    /\ skipped = {}
    /\ cpc = "call"
    /\ SearchIdle
    /\ FormatIdle
    /\ ApiIdle
    /\ EndpointIdle
    /\ QuoteIdle

\* Entry: the blank-text early return, then the locals' initialisation.
CreateChunks ==
    /\ cpc = "call"
    /\ cpc' = IF IsBlank(text) THEN "done" ELSE "while"
    /\ start' = 0
    /\ chunk_index' = 0
    /\ chunks' = << >>
    /\ UNCHANGED <<text, chunk_size, chunk_overlap, end, skipped>>
    /\ UNCHANGED <<searchVars, formatVars, apiVars, endpointVars, quoteVars>>

\* `while start < len(text)`, and the computation of end.
WhileTest ==
    /\ cpc = "while"
    /\ IF start < Len(text)
       THEN /\ end' = SnapEnd(text, start, chunk_size)
            /\ cpc' = "body"
       ELSE /\ end' = end
            /\ cpc' = "done"
    /\ UNCHANGED <<text, chunk_size, chunk_overlap, start, chunk_index, chunks, skipped>>
    /\ UNCHANGED <<searchVars, formatVars, apiVars, endpointVars, quoteVars>>

\* The rest of the loop body: emit the chunk unless its trimmed slice is
\* empty, advance start, and break when it has passed the text.
LoopBody ==
    /\ cpc = "body"
    /\ LET chunk_text == strip(Slice(text, start, end))
           emitted == chunk_text # << >>
       IN  IF emitted /\ Len(chunks) >= MaxChunks
           THEN /\ cpc' = "capped"
                /\ UNCHANGED <<start, chunk_index, chunks, skipped>>
           ELSE /\ chunks' = IF emitted
                             THEN Append(chunks, MakeChunk(chunk_text, chunk_index, start,
                                                           end, PageNumber(text, start)))
                             ELSE chunks
                /\ skipped' = IF emitted THEN skipped ELSE skipped \cup {<<start, end>>}
                /\ chunk_index' = NextChunkIndex(chunk_index, chunk_text)
                /\ start' = NextStart(end, chunk_overlap)
                /\ cpc' = IF start' >= Len(text) THEN "done" ELSE "while"
    /\ UNCHANGED <<text, chunk_size, chunk_overlap, end>>
    /\ UNCHANGED <<searchVars, formatVars, apiVars, endpointVars, quoteVars>>

ChunkNext == CreateChunks \/ WhileTest \/ LoopBody

ChunkSpec == ChunkInit /\ [][ChunkNext]_vars

\* The loop is synchronous code: it keeps running as long as it can.
ChunkFairSpec == ChunkSpec /\ WF_vars(ChunkNext)

(* The chunker on a document of 2500 characters with the ingest endpoint's  *)
(* default parameters.  The text is ordinary characters except at a few     *)
(* marked positions, which hold a sentence terminator or whitespace: in and *)
(* before the look-back range of each window that is snapped.               *)

\* Form defaults of POST /ingest
DefaultChunkSize == 1000
DefaultChunkOverlap == 200

\* at most this many positions of a long text are marked
MaxMarks == 3

\* <<position, character>>
Marks ==
    {<<500, ".">>, <<900, " ">>, <<950, ".">>, <<999, ".">>,
     <<1600, " ">>, <<1650, ".">>, <<1750, "\n">>,
     <<2300, " ">>, <<2450, ".">>, <<2499, " ">>}

MarkSets == {S \in SUBSET Marks : Cardinality(S) <= MaxMarks}

MarkedText(S) ==
    [i \in 1..2500 |->
        IF \E m \in S : m[1] = i - 1 THEN (CHOOSE m \in S : m[1] = i - 1)[2] ELSE "x"]

LongTexts == {MarkedText(S) : S \in MarkSets}

LongChunkInit ==
    /\ text \in LongTexts
    /\ chunk_size = DefaultChunkSize
    /\ chunk_overlap = DefaultChunkOverlap
    /\ start = 0
    /\ end = 0
    /\ chunk_index = 0
    /\ chunks = << >>
    /\ skipped = {}
    /\ cpc = "call"
    /\ SearchIdle
    /\ FormatIdle
    /\ ApiIdle
    /\ EndpointIdle
    /\ QuoteIdle

LongChunkSpec == LongChunkInit /\ [][ChunkNext]_vars

----------------------------------------------------------------------------
(* _create_chunks on texts of several estimated pages *)

\* most estimated pages of a text
MaxPages == 3

\* a text of n characters: letters, with a full stop 50 characters before
\* each multiple of CharsPerPage when dotted
PagedText(n, dotted) ==
    [i \in 1..n |-> IF dotted /\ i % CharsPerPage = CharsPerPage - 50 THEN "." ELSE "x"]

\* texts of 2 .. MaxPages estimated pages, and one a character short of the
\* last page
PagedTexts ==
    {PagedText(n, dotted) :
        n \in {k * CharsPerPage : k \in 2..MaxPages} \cup {MaxPages * CharsPerPage - 1},
        dotted \in BOOLEAN}

\* <<chunk_size, chunk_overlap>>: a page or three quarters of a page per
\* chunk, with the default overlap or none, and a chunk size beyond the text
\* with a larger overlap (the starts after the first are then negative)
PagedParams ==
    {<<CharsPerPage, 0>>, <<CharsPerPage, DefaultChunkOverlap>>,
     <<CharsPerPage - 500, 0>>, <<CharsPerPage - 500, DefaultChunkOverlap>>,
     <<(MaxPages * CharsPerPage) + 1000, (MaxPages * CharsPerPage) + 1500>>}

PagedChunkInit ==
    /\ text \in PagedTexts
    /\ \E p \in PagedParams :
          /\ chunk_size = p[1]
          /\ chunk_overlap = p[2]
    /\ start = 0
    /\ end = 0
    /\ chunk_index = 0
    /\ chunks = << >>
    /\ skipped = {}
    /\ cpc = "call"
    /\ SearchIdle
    /\ FormatIdle
    /\ ApiIdle
    /\ EndpointIdle
    /\ QuoteIdle

PagedChunkSpec == PagedChunkInit /\ [][ChunkNext]_vars

----------------------------------------------------------------------------
(* Claims about _create_chunks *)

\* the precondition the chunker claims share: 0 < chunk_overlap < chunk_size
ValidParams == 0 < chunk_overlap /\ chunk_overlap < chunk_size

Returned == cpc = "done"

\* the text is empty or holds whitespace only
AllWhitespace == \A i \in 1..Len(text) : text[i] \in Whitespace

\* positions of the text lying in no emitted chunk's [start_char, end_char)
Uncovered ==
    {p \in 0..(Len(text) - 1) :
        \A i \in 1..Len(chunks) : ~(chunks[i].start_char <= p /\ p < chunks[i].end_char)}

\* C1: for non-empty (non-blank) text and 0 < chunk_overlap < chunk_size the
\* loop of _create_chunks terminates: the call eventually returns.  A run cut
\* off at the model's chunk bound is counted in the claim's favour, so only a
\* run that cycles for ever refutes it.
C1_Terminates ==
    (ValidParams /\ ~AllWhitespace) => <>(cpc = "done" \/ cpc = "capped")

\* C2: every emitted chunk has end_char <= len(text), and the last chunk of
\* the returned list has end_char = len(text).
C2_EndWithinText ==
    ValidParams =>
        /\ \A i \in 1..Len(chunks) : chunks[i].end_char <= Len(text)
        /\ (Returned /\ chunks # << >>) => chunks[Len(chunks)].end_char = Len(text)

C4_IndicesContiguous ==
    \A i \in 1..Len(chunks) : chunks[i].chunk_index = i - 1

\* a returned list whose first chunk follows a skipped leading window
C4_Witness ==
    Returned /\ ValidParams /\ Len(chunks) >= 2 /\ chunks[1].start_char > 0

\* C5: in the returned sequence every chunk has start_char < end_char and
\* start_char increases strictly from one chunk to the next.
C5_StartsIncrease ==
    (Returned /\ ValidParams) =>
        /\ \A i \in 1..Len(chunks) : chunks[i].start_char < chunks[i].end_char
        /\ \A i \in 1..(Len(chunks) - 1) : chunks[i].start_char < chunks[i + 1].start_char

\* a returned list of three chunks, the second starting inside the first
C5_Witness ==
    /\ Returned /\ ValidParams /\ Len(chunks) >= 3
    /\ chunks[2].start_char < chunks[1].end_char

\* C6: for empty or whitespace-only text _create_chunks returns at once,
\* with an empty list, whatever chunk_size and chunk_overlap are.
C6_BlankGivesEmpty ==
    (AllWhitespace /\ cpc # "call") => (Returned /\ chunks = << >>)

\* a whitespace-only (not empty) text, with an overlap that is not below
\* the chunk size, has returned
C6_Witness ==
    Returned /\ AllWhitespace /\ Len(text) >= 2 /\ chunk_overlap >= chunk_size

\* C15: a text of 2500 characters whose windows all contain non-whitespace
\* text, chunked with chunk_size 1000 and chunk_overlap 200, gives exactly 4
\* chunks: start_char is 0 for the first and lies in [700, 800],
\* [1400, 1600] and [2100, 2400] for the others.  The chunks are checked as
\* they are emitted, and the call returns with the fourth.
C15_FourChunks ==
    (Len(text) = 2500 /\ chunk_size = 1000 /\ chunk_overlap = 200 /\ skipped = {}) =>
        /\ Len(chunks) <= 4
        /\ Returned => Len(chunks) = 4
        /\ cpc # "capped"
        /\ Len(chunks) >= 1 => chunks[1].start_char = 0
        /\ Len(chunks) >= 2 => (700 <= chunks[2].start_char /\ chunks[2].start_char <= 800)
        /\ Len(chunks) >= 3 => (1400 <= chunks[3].start_char /\ chunks[3].start_char <= 1600)
        /\ Len(chunks) >= 4 => (2100 <= chunks[4].start_char /\ chunks[4].start_char <= 2400)

\* every snapped window was cut at the far end of its look-back range: the
\* later chunks start at 700, 1400 and 2100
C15_Witness ==
    /\ Returned /\ Len(text) = 2500 /\ skipped = {}
    /\ Len(chunks) = 4
    /\ chunks[2].start_char = 700
    /\ chunks[3].start_char = 1400
    /\ chunks[4].start_char = 2100

\* the highest position p of the text with lo <= p < hi that holds c; -1 if
\* there is none
LastIn(c, lo, hi) ==
    LET hits == {p \in Max(lo, 0)..(Min(hi, Len(text)) - 1) : text[p + 1] = c}
    IN  IF hits = {} THEN -1 ELSE SetMax(hits)

\* the cut C20 describes for the window at start
DescribedCut ==
    LET proposed == start + chunk_size
        lo == Max(start, proposed - 100)
        sentence == LastIn(".", lo, proposed)
        word == LastIn(" ", lo, proposed)
    IN  IF proposed < Len(text)
        THEN IF sentence # -1 /\ sentence > start THEN sentence + 1
             ELSE IF word # -1 /\ word > start THEN word
             ELSE proposed
        ELSE proposed

\* C20: a window whose proposed end start + chunk_size lies before len(text)
\* is cut one past the last '.' found in [max(start, end - 100), end) if that
\* position is greater than start, otherwise at the last ' ' found in the
\* same range if that position is greater than start, otherwise at
\* start + chunk_size; a window whose proposed end is at or past len(text) is
\* not snapped.
C20_SnapRule ==
    (cpc = "body" /\ ValidParams) => end = DescribedCut

\* most pages of the text: max(1, len(text) // 2000)
PageLimit == IF Len(text) \div CharsPerPage > 1 THEN Len(text) \div CharsPerPage ELSE 1

\* C23: the page_number of every emitted chunk is an integer of
\* 1 .. max(1, len(text) // 2000); it is the page on which the fraction
\* start_char / len(text) of the estimated pages falls (for a start inside
\* the text, (page - 1) <= start_char / len(text) * pages <= page); and from
\* one chunk to the next it does not decrease when start_char increases.
C23_PageInRangeMonotone ==
    /\ \A i \in 1..Len(chunks) :
          LET page == chunks[i].metadata.page_number
              s == chunks[i].start_char
          IN  /\ page \in 1..PageLimit
              /\ s >= 0 => /\ (page - 1) * Len(text) <= s * PageLimit
                           /\ s * PageLimit <= page * Len(text)
    /\ \A i \in 1..(Len(chunks) - 1) :
          chunks[i].start_char < chunks[i + 1].start_char
              => chunks[i].metadata.page_number <= chunks[i + 1].metadata.page_number

\* a returned chunk list of a three-page text with chunks on pages 1, 2 and
\* 3, two consecutive chunks of it on the same page
C23_Witness ==
    /\ Returned
    /\ PageLimit = 3
    /\ \A page \in 1..3 :
          \E i \in 1..Len(chunks) : chunks[i].metadata.page_number = page
    /\ \E i \in 1..(Len(chunks) - 1) :
          /\ chunks[i].start_char < chunks[i + 1].start_char
          /\ chunks[i].metadata.page_number = chunks[i + 1].metadata.page_number

----------------------------------------------------------------------------
(* Numbers of the ranker *)

(* Scores and weights are Python floats.  They are modelled as exact        *)
(* fractions <<numerator, denominator>> in lowest terms with a positive     *)
(* denominator; floating-point rounding is not modelled.                    *)

Abs(i) == IF i < 0 THEN -i ELSE i

RECURSIVE GCD(_, _)
GCD(a, b) == IF b = 0 THEN a ELSE GCD(b, a % b)

Frac(n, d) ==
    LET g == GCD(Abs(n), Abs(d))
        sign == IF d < 0 THEN -1 ELSE 1
    IN  <<(sign * n) \div g, (sign * d) \div g>>

Num(i) == <<i, 1>>

FAdd(a, b) == Frac(a[1] * b[2] + b[1] * a[2], a[2] * b[2])
FMul(a, b) == Frac(a[1] * b[1], a[2] * b[2])
FDiv(a, b) == Frac(a[1] * b[2], a[2] * b[1])
FLess(a, b) == a[1] * b[2] < b[1] * a[2]

----------------------------------------------------------------------------
(* The store boundary: what VectorStore.search_similar / search_text return *)

\* the (document_id, chunk_index) pairs of the stored chunks
StoredChunks == {<<"doc1", 0>>, <<"doc1", 1>>, <<"doc2", 1>>}

\* the scores a query may give a chunk
StoreScores == {Num(1), Num(2)}

\* weights a caller may pass
Weights == {Num(0), Num(1)}

\* the pairs <<vector_weight, keyword_weight>> a caller may pass: every pair
\* of the weights above, the pair (1, 1) scaled by 2, two pairs with a
\* negative weight (search does not validate its weights) and the /search
\* endpoint's default 0.7 / 0.3
WeightPairs ==
    (Weights \X Weights)
        \cup {<<Num(2), Num(2)>>, <<Num(1), Num(-1)>>, <<Num(0), Num(-1)>>,
              <<Frac(7, 10), Frac(3, 10)>>}

\* One formatted result of a store query.  metadata is every other field of
\* the stored record; retrieved_by tells the two branches' copies apart.
StoreResult(branch, doc, idx, score) ==
    [document_id |-> doc, chunk_index |-> idx, text |-> doc \o "#" \o ToString(idx),
     score |-> score,
     metadata |-> [filename |-> doc \o ".pdf", page_number |-> idx + 1,
                   file_type |-> ".pdf", retrieved_by |-> branch]]

\* the stored chunks whose text matches the query's words
TextMatches == {<<"doc1", 0>>, <<"doc2", 1>>}

\* the stored chunks whose similarity to the query reaches score_threshold
VectorMatches == StoredChunks \ {<<"doc2", 1>>}

StoreResults(branch) ==
    {StoreResult(branch, c[1], c[2], sc) :
        c \in IF branch = "keyword" THEN TextMatches ELSE VectorMatches, sc \in StoreScores}

\* a store answer with fractional scores: the vector query finds doc1's
\* chunk 0 with score 0.9; the keyword query finds it with score 0.4 and
\* doc2's chunk 1 with score 0.8
FractionalList(branch) ==
    IF branch = "vector"
    THEN <<StoreResult("vector", "doc1", 0, Frac(9, 10))>>
    ELSE <<StoreResult("keyword", "doc1", 0, Frac(4, 10)),
           StoreResult("keyword", "doc2", 1, Frac(8, 10))>>

\* a store answer that holds, before doc1's chunk 0, a record that was not
\* written by store_document: it has no filename, page_number or file_type,
\* but has the character range and the ingestion date
SparseList(branch) ==
    <<[document_id |-> "doc3", chunk_index |-> 0, text |-> "doc3#0", score |-> Num(2),
       metadata |-> [start_char |-> 0, end_char |-> 6, ingestion_date |-> "2024-01-01",
                     retrieved_by |-> branch]],
      StoreResult(branch, "doc1", 0, Num(1))>>

\* the lists a store query may return
StoreLists(branch) ==
    UNION {[1..n -> StoreResults(branch)] : n \in 0..MaxResults}
        \cup {FractionalList(branch), SparseList(branch)}

----------------------------------------------------------------------------
(* HybridSearch._combine_search_results *)

\* key = f"{result['document_id']}_{result['chunk_index']}"
MergeKey(result) == result.document_id \o "_" \o ToString(result.chunk_index)

\* combined_dict is a Python dict: a sequence of <<key, value>> in insertion
\* order; assigning to a key that is present keeps its position.
DictHas(d, key) == \E i \in 1..Len(d) : d[i][1] = key
DictIndex(d, key) == CHOOSE i \in 1..Len(d) : d[i][1] = key
DictSet_AlwaysAppend(d, key, value) == Append(d, <<key, value>>)
DictSet(d, key, value) ==
    IF DictHas(d, key)
    THEN [d EXCEPT ![DictIndex(d, key)] = <<key, value>>]
    ELSE Append(d, <<key, value>>)
DictValues(d) == [i \in 1..Len(d) |-> d[i][2]]

\* the body of `for result in vector_results`
AddVectorResult(d, result, vw) ==
    DictSet(d, MergeKey(result),
            [document_id |-> result.document_id,
             chunk_index |-> result.chunk_index,
             text |-> result.text,
             vector_score |-> result.score,
             keyword_score |-> Num(0),
             combined_score |-> FMul(result.score, vw),
             metadata |-> result.metadata])

\* the body of `for result in keyword_results`
AddKeywordResult_Overwrite(d, result, kw) ==
    DictSet(d, MergeKey(result),
            [document_id |-> result.document_id,
             chunk_index |-> result.chunk_index,
             text |-> result.text,
             vector_score |-> Num(0),
             keyword_score |-> result.score,
             combined_score |-> FMul(result.score, kw),
             metadata |-> result.metadata])
AddKeywordResult(d, result, kw) ==
    LET key == MergeKey(result)
    IN  IF DictHas(d, key)
        THEN LET old == d[DictIndex(d, key)][2]
             IN  DictSet(d, key,
                         [old EXCEPT !.keyword_score = result.score,
                                     !.combined_score =
                                         FAdd(old.combined_score, FMul(result.score, kw))])
        ELSE DictSet(d, key,
                     [document_id |-> result.document_id,
                      chunk_index |-> result.chunk_index,
                      text |-> result.text,
                      vector_score |-> Num(0),
                      keyword_score |-> result.score,
                      combined_score |-> FMul(result.score, kw),
                      metadata |-> result.metadata])

RECURSIVE AddVectorResults(_, _, _)
AddVectorResults(d, results, vw) ==
    IF results = << >> THEN d
    ELSE AddVectorResults(AddVectorResult(d, Head(results), vw), Tail(results), vw)

RECURSIVE AddKeywordResults(_, _, _)
AddKeywordResults(d, results, kw) ==
    IF results = << >> THEN d
    ELSE AddKeywordResults(AddKeywordResult(d, Head(results), kw), Tail(results), kw)

\* x placed into a list already sorted by descending combined_score, after
\* every element whose score is not lower: list.sort(reverse=True) is stable.
RECURSIVE InsertDescending_TiesFirst(_, _)
InsertDescending_TiesFirst(sorted, x) ==
    IF sorted = << >> THEN <<x>>
    ELSE IF FLess(x.combined_score, Head(sorted).combined_score)
         THEN <<Head(sorted)>> \o InsertDescending_TiesFirst(Tail(sorted), x)
         ELSE <<x>> \o sorted
RECURSIVE InsertDescending(_, _)
InsertDescending(sorted, x) ==
    IF sorted = << >> THEN <<x>>
    ELSE IF FLess(Head(sorted).combined_score, x.combined_score)
         THEN <<x>> \o sorted
         ELSE <<Head(sorted)>> \o InsertDescending(Tail(sorted), x)

\* combined_results.sort(key=lambda x: x["combined_score"], reverse=True)
RECURSIVE SortByCombinedScore(_)
SortByCombinedScore(list) ==
    IF list = << >> THEN << >>
    ELSE InsertDescending(SortByCombinedScore(SubSeq(list, 1, Len(list) - 1)),
                          list[Len(list)])

\* metadata.get(field, default); None is modelled as the string "None"
MetadataGet_AlwaysDefault(metadata, field, default) == default
MetadataGet(metadata, field, default) ==
    IF field \in DOMAIN metadata THEN metadata[field] ELSE default

\* one element of formatted_results
FormatResult(result) ==
    [document_id |-> result.document_id,
     chunk_index |-> result.chunk_index,
     text |-> result.text,
     score |-> result.combined_score,
     metadata |-> result.metadata,
     citation |->
        [document_id |-> result.document_id,
         filename |-> MetadataGet(result.metadata, "filename", "Unknown"),
         page_number |-> MetadataGet(result.metadata, "page_number", "None"),
         chunk_index |-> result.chunk_index,
         start_char |-> MetadataGet(result.metadata, "start_char", "None"),
         end_char |-> MetadataGet(result.metadata, "end_char", "None"),
         document_type |-> MetadataGet(result.metadata, "file_type", "None"),
         ingestion_date |-> MetadataGet(result.metadata, "ingestion_date", "None")]]

\* combined_results[:limit]
Truncate(list, lim) == Slice(list, 0, lim)

CombineSearchResults(vector_results, keyword_results, vw, kw, lim) ==
    LET combined_dict == AddKeywordResults(AddVectorResults(<< >>, vector_results, vw),
                                           keyword_results, kw)
        combined_results == SortByCombinedScore(DictValues(combined_dict))
        kept == Truncate(combined_results, lim)
    IN  [i \in 1..Len(kept) |-> FormatResult(kept[i])]

----------------------------------------------------------------------------
(* HybridSearch.search *)

\* the normalized (vector_weight, keyword_weight)
NormalizeWeights_VectorOnly(vw, kw) ==
    LET total_weight == FAdd(vw, kw)
    IN  IF FLess(Num(0), total_weight)
        THEN <<FDiv(vw, total_weight), kw>>
        ELSE <<vw, kw>>
NormalizeWeights_Never(vw, kw) == <<vw, kw>>
NormalizeWeights(vw, kw) ==
    LET total_weight == FAdd(vw, kw)
    IN  IF FLess(Num(0), total_weight)
        THEN <<FDiv(vw, total_weight), FDiv(kw, total_weight)>>
        ELSE <<vw, kw>>

\* what asyncio.gather(..., return_exceptions=True) yields for one awaitable:
\* its result, or the exception it raised, as a value
GatherValue(task) ==
    IF task.status = "failed"
    THEN [is_exception |-> TRUE, value |-> << >>]
    ELSE [is_exception |-> FALSE, value |-> task.result]

\* `if isinstance(x, Exception): x = []`
HandleException_Keep(gathered) == gathered
HandleException(gathered) ==
    IF gathered.is_exception THEN [is_exception |-> FALSE, value |-> << >>] ELSE gathered

\* the limit each store query is called with: `limit=limit * 2`
BranchLimit(lim) == lim * 2

\* asyncio.gather completes when every awaitable has returned or raised
GatherComplete_Any(vt, kt) == vt.status # "pending" \/ kt.status # "pending"
GatherComplete(vt, kt) == vt.status # "pending" /\ kt.status # "pending"

\* _create_chunks is not running.
ChunkIdle ==
    /\ text = << >>
    /\ chunk_size = 0
    /\ chunk_overlap = 0
    /\ start = 0
    /\ end = 0
    /\ chunk_index = 0
    /\ chunks = << >>
    /\ skipped = {}
    /\ cpc = "idle"

SearchInit ==
    /\ ChunkIdle
    /\ FormatIdle
    /\ ApiIdle
    /\ EndpointIdle
    /\ QuoteIdle
    /\ limit \in 0..MaxLimit
    /\ \E w \in WeightPairs :
          /\ vector_weight = w[1]
          /\ keyword_weight = w[2]
          /\ passed_weights = w
    /\ vector_task = "none"
    /\ keyword_task = "none"
    /\ search_results = << >>
    /\ spc = "call"

\* Entry of search: normalize the weights and create both awaitables, each
\* asking the store for limit * 2 results.
Search ==
    /\ spc = "call"
    /\ vector_weight' = NormalizeWeights(vector_weight, keyword_weight)[1]
    /\ keyword_weight' = NormalizeWeights(vector_weight, keyword_weight)[2]
    /\ vector_task' = [status |-> "pending", limit |-> BranchLimit(limit), result |-> << >>]
    /\ keyword_task' = [status |-> "pending", limit |-> BranchLimit(limit), result |-> << >>]
    /\ spc' = "gather"
    /\ UNCHANGED <<limit, passed_weights, search_results>>
    /\ UNCHANGED <<chunkVars, formatVars, apiVars, endpointVars, quoteVars>>

\* VectorStore.search_similar returns a list.
VectorSearchReturns ==
    /\ spc = "gather"
    /\ vector_task.status = "pending"
    /\ \E rs \in StoreLists("vector") :
          vector_task' = [vector_task EXCEPT !.status = "done", !.result = rs]
    /\ UNCHANGED <<limit, vector_weight, keyword_weight, passed_weights, keyword_task,
                   search_results, spc>>
    /\ UNCHANGED <<chunkVars, formatVars, apiVars, endpointVars, quoteVars>>

\* VectorStore.search_similar raises.
VectorSearchRaises ==
    /\ spc = "gather"
    /\ vector_task.status = "pending"
    /\ vector_task' = [vector_task EXCEPT !.status = "failed"]
    /\ UNCHANGED <<limit, vector_weight, keyword_weight, passed_weights, keyword_task,
                   search_results, spc>>
    /\ UNCHANGED <<chunkVars, formatVars, apiVars, endpointVars, quoteVars>>

\* VectorStore.search_text returns a list.
KeywordSearchReturns ==
    /\ spc = "gather"
    /\ keyword_task.status = "pending"
    /\ \E rs \in StoreLists("keyword") :
          keyword_task' = [keyword_task EXCEPT !.status = "done", !.result = rs]
    /\ UNCHANGED <<limit, vector_weight, keyword_weight, passed_weights, vector_task,
                   search_results, spc>>
    /\ UNCHANGED <<chunkVars, formatVars, apiVars, endpointVars, quoteVars>>

\* VectorStore.search_text raises.
KeywordSearchRaises ==
    /\ spc = "gather"
    /\ keyword_task.status = "pending"
    /\ keyword_task' = [keyword_task EXCEPT !.status = "failed"]
    /\ UNCHANGED <<limit, vector_weight, keyword_weight, passed_weights, vector_task,
                   search_results, spc>>
    /\ UNCHANGED <<chunkVars, formatVars, apiVars, endpointVars, quoteVars>>

\* The await of asyncio.gather resumes once neither awaitable is pending;
\* then the exception handling, the merge and the return.  Iterating over a
\* value that is still an exception raises TypeError, which the enclosing
\* `except Exception` logs and re-raises.
GatherAndCombine ==
    /\ spc = "gather"
    /\ GatherComplete(vector_task, keyword_task)
    /\ LET vector_results == HandleException(GatherValue(vector_task))
           keyword_results == HandleException(GatherValue(keyword_task))
       IN  IF vector_results.is_exception \/ keyword_results.is_exception
           THEN /\ spc' = "raised"
                /\ search_results' = search_results
           ELSE /\ spc' = "returned"
                /\ search_results' =
                      CombineSearchResults(vector_results.value, keyword_results.value,
                                           vector_weight, keyword_weight, limit)
    /\ UNCHANGED <<limit, vector_weight, keyword_weight, passed_weights, vector_task,
                   keyword_task>>
    /\ UNCHANGED <<chunkVars, formatVars, apiVars, endpointVars, quoteVars>>

SearchNext ==
    \/ Search
    \/ VectorSearchReturns
    \/ VectorSearchRaises
    \/ KeywordSearchReturns
    \/ KeywordSearchRaises
    \/ GatherAndCombine

SearchSpec == SearchInit /\ [][SearchNext]_vars

----------------------------------------------------------------------------
(* Claims about HybridSearch.search *)

SearchEnded == spc = "returned" \/ spc = "raised"

VectorFailed == spc # "call" /\ vector_task.status = "failed"
KeywordFailed == spc # "call" /\ keyword_task.status = "failed"

\* the list each branch handed to the merge: what the store returned, and
\* nothing for a branch that raised
VectorList == IF vector_task.status = "done" THEN vector_task.result ELSE << >>
KeywordList == IF keyword_task.status = "done" THEN keyword_task.result ELSE << >>

SameChunk(a, b) == a.document_id = b.document_id /\ a.chunk_index = b.chunk_index

\* where list holds the chunk of r
Occurrences(list, r) == {i \in 1..Len(list) : SameChunk(list[i], r)}

\* the scores a branch returned for the chunk of r; 0 when it returned none
ScoresFor(list, r) ==
    IF Occurrences(list, r) = {} THEN {Num(0)}
    ELSE {list[i].score : i \in Occurrences(list, r)}

\* the distinct chunks the two branches returned
Candidates ==
    {<<r.document_id, r.chunk_index>> :
        r \in {VectorList[i] : i \in 1..Len(VectorList)}
              \cup {KeywordList[i] : i \in 1..Len(KeywordList)}}

SetMin(S) == CHOOSE m \in S : \A o \in S : m <= o

\* original retrieval order: the vector branch's results in their order,
\* then the results only the keyword branch returned, in their order
RetrievalRank(r) ==
    IF Occurrences(VectorList, r) # {}
    THEN SetMin(Occurrences(VectorList, r))
    ELSE Len(VectorList) + SetMin(Occurrences(KeywordList, r))

\* C7: every returned result's score is vector_score * vector_weight +
\* keyword_score * keyword_weight with the normalized weights, where each
\* branch's score is a score that branch returned for the result's chunk, and
\* 0 for a branch that did not return it.
C7_WeightedSum ==
    spc = "returned" =>
        \A i \in 1..Len(search_results) :
            \E vs \in ScoresFor(VectorList, search_results[i]),
               ks \in ScoresFor(KeywordList, search_results[i]) :
                search_results[i].score =
                    FAdd(FMul(vs, vector_weight), FMul(ks, keyword_weight))

\* C8: the returned list holds the merged candidates in descending score
\* order, equal scores in original retrieval order, cut to at most limit.
C8_SortedStableTruncated ==
    spc = "returned" =>
        /\ Len(search_results) <= limit
        /\ Len(search_results) = Min(limit, Cardinality(Candidates))
        /\ \A i \in 1..Len(search_results) :
              <<search_results[i].document_id, search_results[i].chunk_index>> \in Candidates
        /\ \A i, j \in 1..Len(search_results) :
              i < j =>
                /\ ~FLess(search_results[i].score, search_results[j].score)
                /\ search_results[i].score = search_results[j].score =>
                      RetrievalRank(search_results[i]) < RetrievalRank(search_results[j])

\* three candidates cut to two, which tie, one from each branch
C8_Witness ==
    /\ spc = "returned"
    /\ Cardinality(Candidates) = 3
    /\ Len(search_results) = 2
    /\ search_results[1].score = search_results[2].score
    /\ search_results[1].score # Num(0)
    /\ Occurrences(VectorList, search_results[1]) # {}
    /\ Occurrences(VectorList, search_results[2]) = {}

\* the merge of the two lists alone, given to C9 for comparison
WithEmptyVector ==
    CombineSearchResults(<< >>, KeywordList, vector_weight, keyword_weight, limit)
WithEmptyKeyword ==
    CombineSearchResults(VectorList, << >>, vector_weight, keyword_weight, limit)

\* C9: when exactly one sub-query raises, search returns instead of raising;
\* the result is the one an empty list from the failed branch gives, and a
\* chunk the other branch returned once carries that branch's weighted score.
C9_OneBranchDegrades ==
    /\ (SearchEnded /\ VectorFailed /\ ~KeywordFailed) =>
          /\ spc = "returned"
          /\ search_results = WithEmptyVector
          /\ \A i \in 1..Len(search_results) :
                LET occ == Occurrences(KeywordList, search_results[i])
                IN  /\ occ # {}
                    /\ Cardinality(occ) = 1 =>
                          \A o \in occ : search_results[i].score =
                                             FMul(KeywordList[o].score, keyword_weight)
    /\ (SearchEnded /\ KeywordFailed /\ ~VectorFailed) =>
          /\ spc = "returned"
          /\ search_results = WithEmptyKeyword
          /\ \A i \in 1..Len(search_results) :
                LET occ == Occurrences(VectorList, search_results[i])
                IN  /\ occ # {}
                    /\ Cardinality(occ) = 1 =>
                          \A o \in occ : search_results[i].score =
                                             FMul(VectorList[o].score, vector_weight)

\* the keyword query raised, the vector query returned two chunks, and both
\* were returned
C9_Witness ==
    /\ spc = "returned"
    /\ KeywordFailed
    /\ vector_task.status = "done"
    /\ Len(search_results) = 2

\* C10: when both sub-queries raise, search raises instead of returning a list.
C10_BothFailRaises ==
    (SearchEnded /\ VectorFailed /\ KeywordFailed) => spc = "raised"

\* a sub-query has returned or raised
Settled(task) == task.status = "done" \/ task.status = "failed"

\* C11: search dispatches the vector query and the keyword query together,
\* each with limit 2 * limit, and returns or raises only after both have
\* returned or raised: it never ends while a sub-query is pending.
C11_BothAwaited ==
    /\ (spc = "gather" \/ SearchEnded) =>
          /\ vector_task.limit = 2 * limit
          /\ keyword_task.limit = 2 * limit
    /\ SearchEnded => (Settled(vector_task) /\ Settled(keyword_task))

\* search has returned two results after the keyword query raised and the
\* vector query returned
C11_Witness ==
    /\ spc = "returned"
    /\ limit = 2
    /\ vector_task.status = "done"
    /\ keyword_task.status = "failed"
    /\ Len(search_results) = 2
    /\ search_results[1].chunk_index # search_results[2].chunk_index

\* the keys of a result list, in order
Ranking(list) == [i \in 1..Len(list) |-> <<list[i].document_id, list[i].chunk_index>>]

\* what search returns for the branch lists of this run and the weights w
SearchWith(w) ==
    CombineSearchResults(VectorList, KeywordList,
                         NormalizeWeights(w[1], w[2])[1], NormalizeWeights(w[1], w[2])[2],
                         limit)

Scaled(w, factor) == <<FMul(factor, w[1]), FMul(factor, w[2])>>

\* positive factors the weights are scaled by
ScaleFactors == {Num(2), Frac(1, 2)}

\* C12: scaling both weights by the same positive factor does not change the
\* ranking search returns for the same branch results (the same keys in the
\* same order); (2, 2) ranks as (1, 1) does.
C12_ScaleInvariant ==
    spc = "returned" =>
        \A factor \in ScaleFactors :
            Ranking(SearchWith(Scaled(passed_weights, factor))) = Ranking(search_results)

\* weights (1, 1): two results with different scores, the first found by the
\* keyword query only
C12_Witness ==
    /\ spc = "returned"
    /\ passed_weights = <<Num(1), Num(1)>>
    /\ Len(search_results) = 2
    /\ FLess(search_results[2].score, search_results[1].score)
    /\ Occurrences(VectorList, search_results[1]) = {}
    /\ Occurrences(VectorList, search_results[2]) # {}

\* the sum of the weights as passed
PassedSum == FAdd(passed_weights[1], passed_weights[2])

AllScoresZero == \A i \in 1..Len(search_results) : search_results[i].score = Num(0)

\* C13 as claimed: after normalization the two weights sum to 1 whenever
\* their original sum is not 0; for any pair whose sum is 0, both weights
\* used are 0 and every returned result has score 0.
C13_SumOneOrZero ==
    (spc = "gather" \/ SearchEnded) =>
        /\ PassedSum # Num(0) => FAdd(vector_weight, keyword_weight) = Num(1)
        /\ PassedSum = Num(0) =>
              /\ vector_weight = Num(0)
              /\ keyword_weight = Num(0)
              /\ spc = "returned" => AllScoresZero

\* C13 as amended: after normalization the two weights sum to 1 whenever
\* their original sum is greater than 0; otherwise the weights are used as
\* passed, and when both weights passed are 0 every returned result has
\* score 0.
C13_SumOneWhenPositive ==
    (spc = "gather" \/ SearchEnded) =>
        /\ FLess(Num(0), PassedSum) => FAdd(vector_weight, keyword_weight) = Num(1)
        /\ ~FLess(Num(0), PassedSum) => <<vector_weight, keyword_weight>> = passed_weights
        /\ (passed_weights = <<Num(0), Num(0)>> /\ spc = "returned") => AllScoresZero

\* weights (1, -1), whose sum is 0, gave a result a score that is not 0
C13_Witness ==
    /\ spc = "returned"
    /\ passed_weights = <<Num(1), Num(-1)>>
    /\ Len(search_results) = 2
    /\ ~AllScoresZero

\* C14: with the vector query returning doc1's chunk 0 with score 0.9, the
\* keyword query returning doc1's chunk 0 with score 0.4 and doc2's chunk 1
\* with score 0.8, and weights 0.7 / 0.3, search returns exactly (doc1, 0)
\* with score 0.75 and then (doc2, 1) with score 0.24.
C14_Example ==
    ( /\ spc = "returned"
      /\ passed_weights = <<Frac(7, 10), Frac(3, 10)>>
      /\ limit >= 2
      /\ Len(VectorList) = 1
      /\ SameChunk(VectorList[1], [document_id |-> "doc1", chunk_index |-> 0])
      /\ VectorList[1].score = Frac(9, 10)
      /\ Len(KeywordList) = 2
      /\ SameChunk(KeywordList[1], [document_id |-> "doc1", chunk_index |-> 0])
      /\ KeywordList[1].score = Frac(4, 10)
      /\ SameChunk(KeywordList[2], [document_id |-> "doc2", chunk_index |-> 1])
      /\ KeywordList[2].score = Frac(8, 10) )
    => /\ Ranking(search_results) = << <<"doc1", 0>>, <<"doc2", 1>> >>
       /\ search_results[1].score = Frac(75, 100)
       /\ search_results[2].score = Frac(24, 100)

\* the example's branch results and weights were merged
C14_Witness ==
    /\ spc = "returned"
    /\ passed_weights = <<Frac(7, 10), Frac(3, 10)>>
    /\ limit = 2
    /\ VectorList = FractionalList("vector")
    /\ KeywordList = FractionalList("keyword")
    /\ Len(search_results) = 2

\* the citation field cfield of a returned result is the value its own
\* metadata has under mfield, or the default when the metadata has none
CitedFrom(result, cfield, mfield, default) ==
    IF mfield \in DOMAIN result.metadata
    THEN result.citation[cfield] = result.metadata[mfield]
    ELSE result.citation[cfield] = default

\* the metadata of a returned result is the one the given branch returned
\* for its chunk
MetadataOf(list, result) ==
    \E i \in Occurrences(list, result) : result.metadata = list[i].metadata

\* C21: every citation search returns names the document and chunk of the
\* result it is attached to and takes its filename, page number, character
\* range, document type and ingestion date from that result's own metadata
\* (filename 'Unknown' and the others None when missing); the metadata is the
\* vector branch's for a chunk the vector branch returned, and otherwise the
\* keyword branch's.
C21_CitationFromOwnMetadata ==
    spc = "returned" =>
        \A i \in 1..Len(search_results) :
            LET r == search_results[i]
            IN  /\ r.citation.document_id = r.document_id
                /\ r.citation.chunk_index = r.chunk_index
                /\ CitedFrom(r, "filename", "filename", "Unknown")
                /\ CitedFrom(r, "page_number", "page_number", "None")
                /\ CitedFrom(r, "start_char", "start_char", "None")
                /\ CitedFrom(r, "end_char", "end_char", "None")
                /\ CitedFrom(r, "document_type", "file_type", "None")
                /\ CitedFrom(r, "ingestion_date", "ingestion_date", "None")
                /\ IF Occurrences(VectorList, r) # {}
                   THEN MetadataOf(VectorList, r) /\ r.metadata.retrieved_by = "vector"
                   ELSE MetadataOf(KeywordList, r)

\* search returned two results: a chunk both branches found, cited with its
\* filename, and a chunk whose metadata has no filename, cited as 'Unknown'
\* with its character range
C21_Witness ==
    /\ spc = "returned"
    /\ Len(search_results) = 2
    /\ \E i \in 1..2 :
          /\ Occurrences(VectorList, search_results[i]) # {}
          /\ Occurrences(KeywordList, search_results[i]) # {}
          /\ search_results[i].citation.filename = "doc1.pdf"
          /\ search_results[i].citation.start_char = "None"
    /\ \E i \in 1..2 :
          /\ search_results[i].citation.filename = "Unknown"
          /\ search_results[i].citation.start_char = 0
          /\ search_results[i].citation.page_number = "None"

\* (document_id, chunk_index) pairs whose ids contain underscores and digits
KeyPairs ==
    {[document_id |-> d, chunk_index |-> c] :
        d \in {"doc1", "doc1_1", "doc1_", "doc11", "doc"}, c \in {0, 1, 11, -1}}

\* C22: the list search returns holds at most one result for each
\* (document_id, chunk_index) pair, whatever the two branches returned, and
\* two distinct pairs never have the same merge key.
C22_OneResultPerPair ==
    /\ spc = "returned" =>
          \A i, j \in 1..Len(search_results) :
              SameChunk(search_results[i], search_results[j]) => i = j
    /\ spc = "call" =>
          \A p, q \in KeyPairs : MergeKey(p) = MergeKey(q) => p = q
    /\ spc = "returned" =>
          \A i \in 1..Len(search_results) :
              \A q \in KeyPairs :
                  MergeKey(search_results[i]) = MergeKey(q) => SameChunk(search_results[i], q)

\* a chunk returned twice by the vector branch and once by the keyword
\* branch appears once in the returned list
C22_Witness ==
    /\ spc = "returned"
    /\ Len(VectorList) = 2
    /\ SameChunk(VectorList[1], VectorList[2])
    /\ Len(KeywordList) >= 1
    /\ SameChunk(VectorList[1], KeywordList[1])
    /\ Len(search_results) = 1
    /\ SameChunk(search_results[1], VectorList[1])

----------------------------------------------------------------------------
(* LLMService *)

(* A Python string is a sequence of pieces: the characters of a result's   *)
(* text, one piece each, and the fragments the f-strings put around them,  *)
(* one piece each.  A dict is a record; a key that is missing, or whose    *)
(* value is None, is a field the record does not have.                     *)

\* longest result list handed to the formatter
MaxRanked == 2

\* an empty dict
EmptyDict == [k \in {} |-> k]

\* dict.get(key, default)
DictGet(dict, key, default) == IF key \in DOMAIN dict THEN dict[key] ELSE default

\* values of result['text']: empty, plain, and with whitespace around it
ResultTexts == {<< >>, <<"x">>, <<" ", "x", "\n">>}

\* values of result['citation']: with and without a page number
Citations == {[filename |-> "doc1.pdf", page_number |-> 1], [filename |-> "doc2.pdf"]}

\* the results a caller may hand to the formatter: with and without text,
\* with and without citation
RankedResults ==
    {[document_id |-> "doc1", text |-> t, citation |-> c] : t \in ResultTexts, c \in Citations}
        \cup {[document_id |-> "doc1", citation |-> c] : c \in Citations}
        \cup {[document_id |-> "doc1", text |-> t] : t \in ResultTexts}
        \cup {[document_id |-> "doc1"]}

RankedLists == UNION {[1..n -> RankedResults] : n \in 0..MaxRanked}

\* the provider argument: None, or the name of a provider that is not OpenAI
Providers == {"None", "local"}

\* os.getenv('LLM_PROVIDER', 'openai')
DefaultProvider == "openai"

\* `provider = provider or self.default_provider`
Provider(p) == IF p = "None" THEN DefaultProvider ELSE p

\* `if provider == 'openai' and self.openai_client`
CallsOpenAI(p, client) == Provider(p) = "openai" /\ client

\* _format_citation(citation, index)
FormatCitation(citation, index) ==
    <<"[" \o ToString(index) \o "]">>
        \o (IF "filename" \in DOMAIN citation /\ citation.filename # ""
            THEN <<" " \o citation.filename>> ELSE << >>)
        \o (IF "page_number" \in DOMAIN citation /\ citation.page_number # 0
            THEN <<", Page " \o ToString(citation.page_number)>> ELSE << >>)

\* the index extract_text_only cites a result with: its position in
\* search_results, from `enumerate(search_results, 1)`
CitationIndex_Renumbered(position, parts) == Len(parts) + 1
CitationIndex(position, parts) == position

\* the loop of extract_text_only from position i on; text_parts so far is parts
RECURSIVE TextParts(_, _, _)
TextParts(results, i, parts) ==
    IF i > Len(results) THEN parts
    ELSE LET result == results[i]
             part == strip(result.text) \o <<"\n\nSource: ">>
                        \o FormatCitation(DictGet(result, "citation", EmptyDict),
                                          CitationIndex(i, parts))
         IN  TextParts(results, i + 1,
                       IF "text" \in DOMAIN result /\ result.text # << >>
                       THEN Append(parts, part) ELSE parts)

\* sep.join(parts)
RECURSIVE Join(_, _)
Join(sep, parts) ==
    IF parts = << >> THEN << >>
    ELSE IF Len(parts) = 1 THEN parts[1]
    ELSE parts[1] \o sep \o Join(sep, Tail(parts))

\* extract_text_only(search_results)
ExtractTextOnly(results) == Join(<<"\n\n">>, TextParts(results, 1, << >>))

\* what the LLM may answer: response.choices[0].message.content
LLMReplies == {<<"formatted">>, << >>}

\* What format_content gives its caller once the LLM call has ended with
\* outcome [kind, text]: the reply, or the content when the call raised
\* (`except Exception: return content`).
FormatContentValue_Propagate(outcome, content) ==
    IF outcome.kind = "error" THEN [raised |-> TRUE, text |-> << >>]
    ELSE [raised |-> FALSE, text |-> outcome.text]
FormatContentValue(outcome, content) ==
    [raised |-> FALSE, text |-> IF outcome.kind = "error" THEN content ELSE outcome.text]

\* the dicts format_search_results returns
FormattedTextPayload(formatted, original, n) ==
    [formatted_content |-> formatted, original_text |-> original,
     total_results |-> n, formatting_applied |-> TRUE]
PlainTextPayload(text_content, n) ==
    [text_content |-> text_content, total_results |-> n, formatting_applied |-> FALSE]
FormattedResultsPayload(list) ==
    [results |-> list, total_results |-> Len(list), formatting_applied |-> TRUE]
PassThrough_DropTextless(results) ==
    [results |-> SelectSeq(results, LAMBDA r : "text" \in DOMAIN r),
     total_results |-> Len(results), formatting_applied |-> FALSE]
PassThrough(results) ==
    [results |-> results, total_results |-> Len(results), formatting_applied |-> FALSE]
ErrorPayload(results) ==
    [results |-> results, total_results |-> Len(results), formatting_applied |-> FALSE,
     error |-> "error"]

\* result.copy() with formatted_text set
WithFormattedText(result, formatted_text) ==
    [k \in DOMAIN result \cup {"formatted_text"} |->
        IF k = "formatted_text" THEN formatted_text ELSE result[k]]

\* f"{result['text']}\n\nSource: {citation_text}" of the per-result loop
TextWithCitation(result, index) ==
    result.text \o <<"\n\nSource: ">>
        \o FormatCitation(DictGet(result, "citation", EmptyDict), index)

FormatInit ==
    /\ ChunkIdle
    /\ SearchIdle
    /\ ApiIdle
    /\ EndpointIdle
    /\ QuoteIdle
    /\ request \in [search_results : RankedLists, text_only : BOOLEAN,
                    llm_format : BOOLEAN, provider : Providers]
    /\ openai_client \in BOOLEAN
    /\ formatted_results = << >>
    /\ next_result = 0
    /\ llm_content = << >>
    /\ llm_log = << >>
    /\ payload = "none"
    /\ fpc = "call"

\* Entry of format_search_results, up to the return or the first await.
FormatSearchResults ==
    /\ fpc = "call"
    /\ LET results == request.search_results
           text_content == ExtractTextOnly(results)
       IN  IF request.text_only
           THEN IF request.llm_format /\ openai_client
                THEN IF CallsOpenAI(request.provider, openai_client)
                     THEN /\ llm_content' = text_content
                          /\ fpc' = "llm_text"
                          /\ UNCHANGED <<payload, formatted_results, next_result>>
                     ELSE /\ payload' = FormattedTextPayload(text_content, text_content,
                                                             Len(results))
                          /\ fpc' = "returned"
                          /\ UNCHANGED <<llm_content, formatted_results, next_result>>
                ELSE /\ payload' = PlainTextPayload(text_content, Len(results))
                     /\ fpc' = "returned"
                     /\ UNCHANGED <<llm_content, formatted_results, next_result>>
           ELSE IF request.llm_format /\ openai_client
                THEN /\ formatted_results' = << >>
                     /\ next_result' = 1
                     /\ fpc' = "loop"
                     /\ UNCHANGED <<llm_content, payload>>
                ELSE /\ payload' = PassThrough(results)
                     /\ fpc' = "returned"
                     /\ UNCHANGED <<llm_content, formatted_results, next_result>>
    /\ UNCHANGED <<request, openai_client, llm_log>>
    /\ UNCHANGED <<chunkVars, searchVars, apiVars, endpointVars, quoteVars>>

\* One turn of `for result in search_results`, up to the await of
\* format_content's LLM call, and the return after the last result.
FormatNextResult ==
    /\ fpc = "loop"
    /\ IF next_result > Len(request.search_results)
       THEN /\ payload' = FormattedResultsPayload(formatted_results)
            /\ fpc' = "returned"
            /\ UNCHANGED <<formatted_results, next_result, llm_content>>
       ELSE LET result == request.search_results[next_result]
            IN  IF "text" \in DOMAIN result
                THEN LET content == TextWithCitation(result, Len(formatted_results) + 1)
                     IN  IF CallsOpenAI(request.provider, openai_client)
                         THEN /\ llm_content' = content
                              /\ fpc' = "llm_result"
                              /\ UNCHANGED <<formatted_results, next_result, payload>>
                         ELSE /\ formatted_results' =
                                    Append(formatted_results,
                                           WithFormattedText(result, content))
                              /\ next_result' = next_result + 1
                              /\ UNCHANGED <<llm_content, payload, fpc>>
                ELSE /\ formatted_results' = Append(formatted_results, result)
                     /\ next_result' = next_result + 1
                     /\ UNCHANGED <<llm_content, payload, fpc>>
    /\ UNCHANGED <<request, openai_client, llm_log>>
    /\ UNCHANGED <<chunkVars, searchVars, apiVars, endpointVars, quoteVars>>

\* format_content resumes after its LLM call has ended with outcome, and
\* format_search_results goes on with the value it gives; an exception that
\* reached format_search_results would be answered by its own handler.
AfterLLMCall(outcome) ==
    LET value == FormatContentValue(outcome, llm_content)
    IN  /\ llm_log' = Append(llm_log, outcome.kind)
        /\ IF value.raised
           THEN /\ payload' = ErrorPayload(request.search_results)
                /\ fpc' = "returned"
                /\ UNCHANGED <<formatted_results, next_result>>
           ELSE IF fpc = "llm_text"
           THEN /\ payload' = FormattedTextPayload(value.text,
                                                   ExtractTextOnly(request.search_results),
                                                   Len(request.search_results))
                /\ fpc' = "returned"
                /\ UNCHANGED <<formatted_results, next_result>>
           ELSE /\ formatted_results' =
                      Append(formatted_results,
                             WithFormattedText(request.search_results[next_result],
                                               value.text))
                /\ next_result' = next_result + 1
                /\ fpc' = "loop"
                /\ UNCHANGED payload
        /\ UNCHANGED <<request, openai_client, llm_content>>
        /\ UNCHANGED <<chunkVars, searchVars, apiVars, endpointVars, quoteVars>>

\* The OpenAI call returns a completion.
LLMReturns ==
    /\ fpc \in {"llm_text", "llm_result"}
    /\ \E reply \in LLMReplies : AfterLLMCall([kind |-> "reply", text |-> reply])

\* The OpenAI call raises.
LLMRaises ==
    /\ fpc \in {"llm_text", "llm_result"}
    /\ AfterLLMCall([kind |-> "error", text |-> << >>])

FormatNext == FormatSearchResults \/ FormatNextResult \/ LLMReturns \/ LLMRaises

FormatSpec == FormatInit /\ [][FormatNext]_vars

----------------------------------------------------------------------------
(* Claims about LLMService.format_search_results *)

FormatReturned == fpc = "returned"

\* the last LLM call made raised
LLMFailed == llm_log # << >> /\ llm_log[Len(llm_log)] = "error"

\* no OpenAI client is configured, or the provider asked for is another one
ProviderUnavailable == ~openai_client \/ Provider(request.provider) # "openai"

\* the payload carries the caller's text unformatted, as formatted_content
FallbackInFormattedContent ==
    /\ "error" \notin DOMAIN payload
    /\ "formatted_content" \in DOMAIN payload
    /\ "original_text" \in DOMAIN payload
    /\ payload.formatted_content = payload.original_text
    /\ payload.original_text = ExtractTextOnly(request.search_results)

\* C16 as claimed: format_search_results never raises, whatever the LLM call
\* does; when the LLM call fails or the provider is unavailable, with
\* text_only and llm_format set, the returned formatted_content equals the
\* unformatted concatenated text (original_text).
C16_FallbackOnFailure ==
    (FormatReturned /\ request.text_only /\ request.llm_format
        /\ (LLMFailed \/ ProviderUnavailable))
    => FallbackInFormattedContent

\* C16 as amended: as claimed while an OpenAI client is configured (the LLM
\* call fails, or the provider asked for is not 'openai'); with no client
\* configured the payload has no formatted_content and no original_text: it
\* carries the unformatted text as text_content, with formatting_applied
\* false.
C16_FallbackWithClient ==
    (FormatReturned /\ request.text_only /\ request.llm_format) =>
        /\ (openai_client /\ (LLMFailed \/ Provider(request.provider) # "openai"))
              => FallbackInFormattedContent
        /\ ~openai_client =>
              /\ DOMAIN payload = {"text_content", "total_results", "formatting_applied"}
              /\ payload.text_content = ExtractTextOnly(request.search_results)
              /\ payload.formatting_applied = FALSE

\* the LLM call for the text of two results raised, and the text came back
C16_Witness ==
    /\ FormatReturned /\ request.text_only /\ request.llm_format
    /\ LLMFailed
    /\ Len(request.search_results) = 2
    /\ "formatted_content" \in DOMAIN payload
    /\ payload.formatted_content # << >>

\* every LLM call made for this request returned a completion, and at least
\* one was made
LLMSucceeded ==
    /\ llm_log # << >>
    /\ \A i \in 1..Len(llm_log) : llm_log[i] = "reply"

\* C27: in the result of format_search_results, formatting_applied is true
\* only if the LLM call was made and succeeded; when the LLM call failed, the
\* provider is not 'openai' or there is no client, so that the content
\* returned is the unformatted text, formatting_applied is false.
C27_AppliedOnlyOnSuccess ==
    FormatReturned =>
        /\ payload.formatting_applied => LLMSucceeded
        /\ (LLMFailed \/ ProviderUnavailable) => ~payload.formatting_applied

\* the result is listed by extract_text_only
Listed(result) == "text" \in DOMAIN result /\ result.text # << >>

\* the result's citation names a file and a page
Cited(result) ==
    /\ "citation" \in DOMAIN result
    /\ "filename" \in DOMAIN result.citation
    /\ "page_number" \in DOMAIN result.citation

\* the trimmed text of the result at position i, a blank line, and its
\* 'Source: [i] filename, Page N' line
Entry(result, i) ==
    strip(result.text)
        \o <<"\n\nSource: ", "[" \o ToString(i) \o "]", " " \o result.citation.filename,
             ", Page " \o ToString(result.citation.page_number)>>

\* the entries of the listed results from position i on, joined by blank lines
RECURSIVE EntriesFrom(_, _)
EntriesFrom(results, i) ==
    IF i > Len(results) THEN << >>
    ELSE LET rest == EntriesFrom(results, i + 1)
         IN  IF ~Listed(results[i]) THEN rest
             ELSE IF rest = << >> THEN Entry(results[i], i)
             ELSE Entry(results[i], i) \o <<"\n\n">> \o rest

\* the text extract_text_only produced, as the payload carries it
ReturnedText ==
    IF "original_text" \in DOMAIN payload THEN payload.original_text
    ELSE payload.text_content

\* C17: with text_only set, the text of extract_text_only lists the results
\* that have text in ranking order, each as its trimmed text followed by a
\* 'Source: [i] filename, Page N' line, joined by blank lines, where i is the
\* result's 1-based position in the input list, also when earlier results
\* without text are left out.  Stated for results whose citation names a
\* file and a page.
C17_TextOnlyListing ==
    (FormatReturned /\ request.text_only
        /\ \A i \in 1..Len(request.search_results) :
              Listed(request.search_results[i]) => Cited(request.search_results[i]))
    => ReturnedText = EntriesFrom(request.search_results, 1)

\* the first result has no text and is left out; the second is listed, its
\* text trimmed, as [2]
C17_Witness ==
    /\ FormatReturned /\ request.text_only
    /\ Len(request.search_results) = 2
    /\ ~Listed(request.search_results[1])
    /\ Listed(request.search_results[2])
    /\ Cited(request.search_results[2])
    /\ strip(request.search_results[2].text) # request.search_results[2].text
    /\ ReturnedText # << >>

\* C18: with text_only and llm_format both false, format_search_results
\* returns the input list unchanged (same elements, same order) with
\* formatting_applied false and total_results the number of input results,
\* and no step of the call modifies the caller's list.
C18_PassThrough ==
    /\ [](  (FormatReturned /\ ~request.text_only /\ ~request.llm_format) =>
              /\ payload.results = request.search_results
              /\ payload.formatting_applied = FALSE
              /\ payload.total_results = Len(request.search_results)  )
    /\ [][request' = request]_vars

\* two results, the first without text, were passed through
C18_Witness ==
    /\ FormatReturned /\ ~request.text_only /\ ~request.llm_format
    /\ Len(request.search_results) = 2
    /\ "text" \notin DOMAIN request.search_results[1]
    /\ Len(payload.results) = 2

----------------------------------------------------------------------------
(* POST /search/vector and POST /search/keyword *)

\* the single-branch routes and the store branch each one queries
Routes == {"/search/vector", "/search/keyword"}
Branch(route) == IF route = "/search/vector" THEN "vector" ELSE "keyword"

\* One element of the list search_vector_only / search_keyword_only returns.
SingleBranchResult(branch, result) ==
    [document_id |-> result.document_id,
     chunk_index |-> result.chunk_index,
     text |-> result.text,
     score |-> result.score,
     search_type |-> branch,
     metadata |-> result.metadata]

SingleBranchResults(branch, results) ==
    [i \in 1..Len(results) |-> SingleBranchResult(branch, results[i])]

\* the fields of schemas.SearchResult and the fields of schemas.Citation
\* that have no default
SearchResultFields == {"document_id", "chunk_index", "text", "score", "metadata", "citation"}
CitationRequired == {"document_id", "filename", "chunk_index"}

\* pydantic accepts the dict as a SearchResult
ValidSearchResult(result) ==
    /\ SearchResultFields \subseteq DOMAIN result
    /\ CitationRequired \subseteq DOMAIN result.citation

\* SearchResponse(results=search_results, total_results=len(search_results), ...)
\* is built, or raises a validation error
ValidSearchResponse(results) == \A i \in 1..Len(results) : ValidSearchResult(results[i])

\* the endpoint's answers
OkResponse(results, search_type) ==
    [status |-> 200,
     body |-> [results |-> results, total_results |-> Len(results),
               search_type |-> search_type]]
ErrorResponse == [status |-> 500, body |-> "error"]

ApiInit ==
    /\ ChunkIdle
    /\ SearchIdle
    /\ FormatIdle
    /\ EndpointIdle
    /\ QuoteIdle
    /\ api_request \in [route : Routes, limit : 0..MaxLimit]
    /\ store_task = "none"
    /\ http_response = "none"
    /\ apc = "call"

\* The endpoint calls search_vector_only / search_keyword_only, which awaits
\* the store query with the caller's limit.
SearchSingleBranch ==
    /\ apc = "call"
    /\ store_task' = [status |-> "pending", limit |-> api_request.limit, result |-> << >>]
    /\ apc' = "await"
    /\ UNCHANGED <<api_request, http_response>>
    /\ UNCHANGED <<chunkVars, searchVars, formatVars, endpointVars, quoteVars>>

\* The store query returns a list.
StoreReturns ==
    /\ apc = "await"
    /\ store_task.status = "pending"
    /\ \E rs \in StoreLists(Branch(api_request.route)) :
          store_task' = [store_task EXCEPT !.status = "done", !.result = rs]
    /\ UNCHANGED <<api_request, http_response, apc>>
    /\ UNCHANGED <<chunkVars, searchVars, formatVars, endpointVars, quoteVars>>

\* The store query raises.
StoreRaises ==
    /\ apc = "await"
    /\ store_task.status = "pending"
    /\ store_task' = [store_task EXCEPT !.status = "failed"]
    /\ UNCHANGED <<api_request, http_response, apc>>
    /\ UNCHANGED <<chunkVars, searchVars, formatVars, endpointVars, quoteVars>>

\* search_*_only formats the store's list (or re-raises), and the endpoint
\* builds the SearchResponse; any exception becomes HTTP 500.
Respond ==
    /\ apc = "await"
    /\ store_task.status # "pending"
    /\ LET branch == Branch(api_request.route)
           search_results_only == SingleBranchResults(branch, store_task.result)
       IN  http_response' =
               IF store_task.status = "failed" THEN ErrorResponse
               ELSE IF ValidSearchResponse(search_results_only)
               THEN OkResponse(search_results_only, branch)
               ELSE ErrorResponse
    /\ apc' = "responded"
    /\ UNCHANGED <<api_request, store_task>>
    /\ UNCHANGED <<chunkVars, searchVars, formatVars, endpointVars, quoteVars>>

ApiNext == SearchSingleBranch \/ StoreReturns \/ StoreRaises \/ Respond

ApiSpec == ApiInit /\ [][ApiNext]_vars

----------------------------------------------------------------------------
(* Claims about the single-branch endpoints *)

\* the list search_vector_only / search_keyword_only handed to the endpoint
HandedResults == SingleBranchResults(Branch(api_request.route), store_task.result)

\* C19: every result search_vector_only and search_keyword_only hand to the
\* /search/vector and /search/keyword responses has all the fields of a
\* SearchResult (document_id, chunk_index, text, score, metadata, citation),
\* so a non-empty single-branch search is answered with a successful
\* SearchResponse carrying those results, not with an error.
C19_SingleBranchDelivered ==
    (apc = "responded" /\ store_task.status = "done" /\ store_task.result # << >>) =>
        /\ \A i \in 1..Len(HandedResults) :
              {"document_id", "chunk_index", "text", "score", "metadata", "citation"}
                  \subseteq DOMAIN HandedResults[i]
        /\ http_response.status = 200
        /\ http_response.body.results = HandedResults

----------------------------------------------------------------------------
(* The endpoints POST /search, POST /ingest and DELETE /admin/reset *)

(* An exception is a record [type, status_code, detail].  Each of the three *)
(* handlers runs its whole body under `try:` and ends with                  *)
(* `except Exception as e: raise HTTPException(status_code=500, ...)`;      *)
(* HTTPException is a subclass of Exception.                                *)

\* longest list list_collections returns
MaxCollections == 3

\* the hybrid_weight values a caller may pass
HybridWeights == {Frac(-1, 10), Num(0), Frac(7, 10), Num(1), Frac(11, 10)}

\* upload names, as Path(file.filename) splits them: the stem and the suffix
Filenames ==
    {[stem |-> "report", suffix |-> ".pdf"], [stem |-> "report", suffix |-> ".PDF"],
     [stem |-> "notes", suffix |-> ".txt"], [stem |-> "setup", suffix |-> ".exe"],
     [stem |-> "README", suffix |-> ""]}

\* str.lower() on the suffixes above
Lower(suffix) == IF suffix = ".PDF" THEN ".pdf" ELSE suffix

\* allowed_types
AllowedTypes == {".pdf", ".docx", ".txt", ".xlsx", ".xls", ".csv"}

\* file_extension = Path(file.filename).suffix.lower()
FileExtension(filename) == Lower(filename.suffix)

\* the names of the database's collections
CollectionNames == {"documents", "quotes", "notes"}

\* the lists list_collection_names may return: distinct names in some order
CollectionLists ==
    {cs \in UNION {[1..n -> CollectionNames] : n \in 0..MaxCollections} :
        \A i, j \in 1..Len(cs) : cs[i] = cs[j] => i = j}

EndpointRequests ==
    {[route |-> "/search", hybrid_weight |-> w] : w \in HybridWeights}
        \cup {[route |-> "/ingest", filename |-> f] : f \in Filenames}
        \cup {[route |-> "/admin/reset"]}

\* raise HTTPException(status_code=..., detail=...)
HTTPException(status_code, detail) ==
    [type |-> "HTTPException", status_code |-> status_code, detail |-> detail]

\* an exception raised by a service the handler awaits
ServiceError(where) == [type |-> "Exception", status_code |-> 0, detail |-> where]

\* What the client gets when the handler's body raises e: every handler's
\* `except Exception` catches it and raises HTTPException(500) with the
\* handler's prefix and str(e).
CaughtResponse(prefix, e) == [status |-> 500, detail |-> <<prefix, e.detail>>]

\* the handler returned a body
OkBody(body) == [status |-> 200, body |-> body]

\* `if hybrid_weight < 0.0 or hybrid_weight > 1.0`
WeightOutOfRange(w) == FLess(w, Num(0)) \/ FLess(Num(1), w)

\* Whether the upload file exists after the cleanup of ingest_document's
\* except clause: `if 'file_path' in locals() and file_path.exists():
\* file_path.unlink()`.
AfterCleanup_Skip(path, exists) == exists
AfterCleanup(path, exists) == IF path # "unbound" /\ exists THEN FALSE ELSE exists

\* reset_results as initialised
InitialResetResults ==
    [deleted_collections |-> << >>, total_collections_deleted |-> 0,
     status |-> "success",
     message |-> "All collections and vector database cleared successfully"]

\* f"{collection_name} (failed: {str(e)})"
FailedEntry(collection_name, e) == collection_name \o " (failed: " \o e.detail \o ")"

EndpointInit ==
    /\ ChunkIdle
    /\ SearchIdle
    /\ FormatIdle
    /\ ApiIdle
    /\ QuoteIdle
    /\ ep_request \in EndpointRequests
    /\ file_path = "unbound"
    /\ upload_exists = FALSE
    /\ upload_written = FALSE
    /\ collections = << >>
    /\ next_collection = 0
    /\ reset_results = "none"
    /\ dropped = << >>
    /\ ep_response = "none"
    /\ epc = "call"

\* search_documents up to the await of hybrid_search.search: the validation
\* of hybrid_weight raises HTTPException(400) inside the try block.
SearchDocuments ==
    /\ epc = "call"
    /\ ep_request.route = "/search"
    /\ IF WeightOutOfRange(ep_request.hybrid_weight)
       THEN /\ ep_response' =
                  CaughtResponse("Search failed",
                      HTTPException(400, "hybrid_weight must be between 0.0 and 1.0"))
            /\ epc' = "done"
       ELSE /\ epc' = "searching"
            /\ UNCHANGED ep_response
    /\ UNCHANGED <<ep_request, file_path, upload_exists, upload_written, collections,
                   next_collection, reset_results, dropped>>
    /\ UNCHANGED <<chunkVars, searchVars, formatVars, apiVars, quoteVars>>

\* hybrid_search.search and the formatting return; the handler returns the
\* response.
HybridSearchReturns ==
    /\ epc = "searching"
    /\ ep_response' = OkBody("SearchResponse")
    /\ epc' = "done"
    /\ UNCHANGED <<ep_request, file_path, upload_exists, upload_written, collections,
                   next_collection, reset_results, dropped>>
    /\ UNCHANGED <<chunkVars, searchVars, formatVars, apiVars, quoteVars>>

\* hybrid_search.search raises.
HybridSearchRaises ==
    /\ epc = "searching"
    /\ ep_response' = CaughtResponse("Search failed", ServiceError("hybrid_search"))
    /\ epc' = "done"
    /\ UNCHANGED <<ep_request, file_path, upload_exists, upload_written, collections,
                   next_collection, reset_results, dropped>>
    /\ UNCHANGED <<chunkVars, searchVars, formatVars, apiVars, quoteVars>>

\* ingest_document up to the await of process_document: the file type check
\* raises HTTPException(400) inside the try block, before file_path is
\* assigned; otherwise file_path is assigned and the upload is written.
\* Opening the file may fail (nothing on disk), and reading the upload or
\* writing may fail after the file was created.
IngestDocument ==
    /\ epc = "call"
    /\ ep_request.route = "/ingest"
    /\ IF FileExtension(ep_request.filename) \notin AllowedTypes
       THEN /\ ep_response' =
                  CaughtResponse("Document ingestion failed",
                      HTTPException(400, "Unsupported file type"))
            /\ upload_exists' = AfterCleanup(file_path, upload_exists)
            /\ epc' = "done"
            /\ UNCHANGED <<file_path, upload_written>>
       ELSE /\ file_path' = "uploads/" \o "file_id" \o FileExtension(ep_request.filename)
            /\ \E outcome \in {"written", "open_failed", "write_failed"} :
                  /\ upload_written' = (outcome # "open_failed")
                  /\ IF outcome = "written"
                     THEN /\ upload_exists' = TRUE
                          /\ epc' = "processing"
                          /\ UNCHANGED ep_response
                     ELSE /\ upload_exists' = AfterCleanup(file_path', outcome = "write_failed")
                          /\ ep_response' = CaughtResponse("Document ingestion failed",
                                                           ServiceError("write"))
                          /\ epc' = "done"
    /\ UNCHANGED <<ep_request, collections, next_collection, reset_results, dropped>>
    /\ UNCHANGED <<chunkVars, searchVars, formatVars, apiVars, quoteVars>>

\* process_document returns; the handler awaits store_document.
ProcessDocumentReturns ==
    /\ epc = "processing"
    /\ epc' = "storing"
    /\ UNCHANGED <<ep_request, file_path, upload_exists, upload_written, collections,
                   next_collection, reset_results, dropped, ep_response>>
    /\ UNCHANGED <<chunkVars, searchVars, formatVars, apiVars, quoteVars>>

\* process_document raises: the except clause cleans up and answers.
ProcessDocumentRaises ==
    /\ epc = "processing"
    /\ upload_exists' = AfterCleanup(file_path, upload_exists)
    /\ ep_response' = CaughtResponse("Document ingestion failed",
                                     ServiceError("process_document"))
    /\ epc' = "done"
    /\ UNCHANGED <<ep_request, file_path, upload_written, collections, next_collection,
                   reset_results, dropped>>
    /\ UNCHANGED <<chunkVars, searchVars, formatVars, apiVars, quoteVars>>

\* store_document returns: file_path.unlink() and the DocumentResponse.
StoreDocumentReturns ==
    /\ epc = "storing"
    /\ upload_exists' = FALSE
    /\ ep_response' = OkBody("DocumentResponse")
    /\ epc' = "done"
    /\ UNCHANGED <<ep_request, file_path, upload_written, collections, next_collection,
                   reset_results, dropped>>
    /\ UNCHANGED <<chunkVars, searchVars, formatVars, apiVars, quoteVars>>

\* store_document raises: the except clause cleans up and answers.
StoreDocumentRaises ==
    /\ epc = "storing"
    /\ upload_exists' = AfterCleanup(file_path, upload_exists)
    /\ ep_response' = CaughtResponse("Document ingestion failed",
                                     ServiceError("store_document"))
    /\ epc' = "done"
    /\ UNCHANGED <<ep_request, file_path, upload_written, collections, next_collection,
                   reset_results, dropped>>
    /\ UNCHANGED <<chunkVars, searchVars, formatVars, apiVars, quoteVars>>

\* reset_database up to the await of list_collections
ResetDatabase ==
    /\ epc = "call"
    /\ ep_request.route = "/admin/reset"
    /\ epc' = "listing"
    /\ UNCHANGED <<ep_request, file_path, upload_exists, upload_written, collections,
                   next_collection, reset_results, dropped, ep_response>>
    /\ UNCHANGED <<chunkVars, searchVars, formatVars, apiVars, quoteVars>>

\* list_collections returns; reset_results is initialised and the loop begins.
ListCollectionsReturns ==
    /\ epc = "listing"
    /\ collections' \in CollectionLists
    /\ reset_results' = InitialResetResults
    /\ next_collection' = 1
    /\ epc' = "deleting"
    /\ UNCHANGED <<ep_request, file_path, upload_exists, upload_written, dropped,
                   ep_response>>
    /\ UNCHANGED <<chunkVars, searchVars, formatVars, apiVars, quoteVars>>

\* list_collections raises.
ListCollectionsRaises ==
    /\ epc = "listing"
    /\ ep_response' = CaughtResponse("Database reset failed",
                                     ServiceError("list_collections"))
    /\ epc' = "done"
    /\ UNCHANGED <<ep_request, file_path, upload_exists, upload_written, collections,
                   next_collection, reset_results, dropped>>
    /\ UNCHANGED <<chunkVars, searchVars, formatVars, apiVars, quoteVars>>

\* delete_collection returns for the collection the loop is at: its name is
\* appended to deleted_collections.
DeleteCollectionReturns ==
    /\ epc = "deleting"
    /\ next_collection <= Len(collections)
    /\ reset_results' =
          [reset_results EXCEPT !.deleted_collections =
              Append(@, collections[next_collection])]
    /\ dropped' = Append(dropped, collections[next_collection])
    /\ next_collection' = next_collection + 1
    /\ UNCHANGED <<ep_request, file_path, upload_exists, upload_written, collections,
                   ep_response, epc>>
    /\ UNCHANGED <<chunkVars, searchVars, formatVars, apiVars, quoteVars>>

\* delete_collection raises: the loop's except clause appends the name with
\* the failure.
DeleteCollectionRaises ==
    /\ epc = "deleting"
    /\ next_collection <= Len(collections)
    /\ reset_results' =
          [reset_results EXCEPT !.deleted_collections =
              Append(@, FailedEntry(collections[next_collection], ServiceError("drop")))]
    /\ next_collection' = next_collection + 1
    /\ UNCHANGED <<ep_request, file_path, upload_exists, upload_written, collections,
                   dropped, ep_response, epc>>
    /\ UNCHANGED <<chunkVars, searchVars, formatVars, apiVars, quoteVars>>

\* After the loop: total_collections_deleted is set and reset_results returned.
ReturnResetResults ==
    /\ epc = "deleting"
    /\ next_collection > Len(collections)
    /\ reset_results' =
          [reset_results EXCEPT !.total_collections_deleted =
              Len(reset_results.deleted_collections)]
    /\ ep_response' = OkBody(reset_results')
    /\ epc' = "done"
    /\ UNCHANGED <<ep_request, file_path, upload_exists, upload_written, collections,
                   next_collection, dropped>>
    /\ UNCHANGED <<chunkVars, searchVars, formatVars, apiVars, quoteVars>>

EndpointNext ==
    \/ SearchDocuments
    \/ HybridSearchReturns
    \/ HybridSearchRaises
    \/ IngestDocument
    \/ ProcessDocumentReturns
    \/ ProcessDocumentRaises
    \/ StoreDocumentReturns
    \/ StoreDocumentRaises
    \/ ResetDatabase
    \/ ListCollectionsReturns
    \/ ListCollectionsRaises
    \/ DeleteCollectionReturns
    \/ DeleteCollectionRaises
    \/ ReturnResetResults

EndpointSpec == EndpointInit /\ [][EndpointNext]_vars

----------------------------------------------------------------------------
(* Claims about the endpoints *)

Answered == epc = "done"

\* the request fails input validation: a hybrid_weight outside [0.0, 1.0],
\* or an upload whose extension is not a supported one
RejectedByValidation ==
    \/ /\ ep_request.route = "/search"
       /\ \/ FLess(ep_request.hybrid_weight, Num(0))
          \/ FLess(Num(1), ep_request.hybrid_weight)
    \/ /\ ep_request.route = "/ingest"
       /\ Lower(ep_request.filename.suffix)
             \notin {".pdf", ".docx", ".txt", ".xlsx", ".xls", ".csv"}

\* C24: a request rejected by input validation (POST /search with
\* hybrid_weight outside [0.0, 1.0], POST /ingest with an unsupported file
\* extension) is answered with status 400, not 500.
C24_ValidationAnswers400 ==
    (Answered /\ RejectedByValidation) => ep_response.status = 400

\* C25: when ingest_document has finished, with a response or with an error
\* from document processing or from storing, the temporary upload file it
\* wrote does not exist.
C25_UploadRemoved ==
    (Answered /\ ep_request.route = "/ingest") => ~upload_exists

\* ingest_document wrote the upload, storing failed, and the file is gone
C25_Witness ==
    /\ Answered
    /\ ep_request.route = "/ingest"
    /\ upload_written
    /\ ep_response.status = 500
    /\ ep_response.detail[2] = "store_document"
    /\ ~upload_exists

\* C26: in the response of DELETE /admin/reset, total_collections_deleted is
\* the number of collections whose deletion succeeded and deleted_collections
\* lists exactly those collections, also when deleting a collection raised.
C26_CountsSucceededOnly ==
    (Answered /\ ep_request.route = "/admin/reset" /\ ep_response.status = 200) =>
        /\ ep_response.body.total_collections_deleted = Len(dropped)
        /\ ep_response.body.deleted_collections = dropped

----------------------------------------------------------------------------
(* XMLQuoteGenerator._update_worksheet_xml *)

(* sheetData is the sequence of its row elements in document order.  A row  *)
(* element is a record: r, the row number its `r` attribute holds (written  *)
(* with str() and read back with int()); spans, another attribute, when it  *)
(* has one; cells, its cell elements in order; and origin, a history field  *)
(* that is not in the XML and tells where the element comes from:           *)
(* <<"template", n>> for row n of the template, <<"moved", n>> for the      *)
(* element _insert_moved_content builds from the copy of template row n,    *)
(* <<"product", i>> for the row of product i, <<"total", 0>> for the TOTAL  *)
(* row.  A cell element is a record: r, its reference as a sequence of      *)
(* characters, when it has one; t, its type; v, the value whose str() the   *)
(* code writes as text.  Numbers of the price computation are exact         *)
(* fractions.                                                               *)

\* most products of a list drawn from the catalog
MaxProducts == 2

\* length of the one long product list
BulkSize == 9

FirstProductRow == 15
LastTemplateProductRow == 23

\* prices and tax percentages of the catalog
Prices == {0, 50, 100}
Taxes == {0, 10}

\* the product dicts a caller may pass; the optional keys cas_number,
\* hs_code, part and packing are left out
Catalog ==
    {[name |-> "item" \o ToString(p) \o "-" \o ToString(t), price |-> p, tax |-> t] :
        p \in Prices, t \in Taxes}

BulkList == [i \in 1..BulkSize |-> [name |-> "item100-10", price |-> 100, tax |-> 10]]

ProductLists == UNION {[1..n -> Catalog] : n \in 0..MaxProducts} \cup {BulkList}

\* str(n) for n >= 0, as a sequence of characters
RECURSIVE Digits(_)
Digits(n) ==
    LET last == <<"0", "1", "2", "3", "4", "5", "6", "7", "8", "9">>[(n % 10) + 1]
    IN  IF n < 10 THEN <<last>> ELSE Append(Digits(n \div 10), last)

\* c.isalpha() for the characters of a cell reference
IsAlpha(c) ==
    c \in {"A", "B", "C", "D", "E", "F", "G", "H", "I", "J", "K", "L", "M", "N", "O", "P",
           "Q", "R", "S", "T", "U", "V", "W", "X", "Y", "Z"}

\* row numbers of the template's rows: the last header row, the first and
\* the last product row, and two rows after them
TemplateRowNumbers == {14, 15, 23, 24, 30}

\* a row of the template: a cell in column A, a cell in column AB and a cell
\* without a reference
TemplateRow(n) ==
    [r |-> n, spans |-> "1:14", origin |-> <<"template", n>>,
     cells |-> <<[r |-> <<"A">> \o Digits(n), t |-> "s", v |-> n],
                 [r |-> <<"A", "B">> \o Digits(n), t |-> "n", v |-> 1],
                 [t |-> "n", v |-> 0]>>]

\* the rows numbered by S, ascending
RECURSIVE TemplateRows(_)
TemplateRows(S) ==
    IF S = {} THEN << >>
    ELSE LET n == CHOOSE m \in S : \A k \in S : m <= k
         IN  <<TemplateRow(n)>> \o TemplateRows(S \ {n})

Templates == {TemplateRows(S) : S \in SUBSET TemplateRowNumbers}

\* a - b
FSub(a, b) == FAdd(a, FMul(Num(-1), b))

\* round(x, 2) of an exact x: the nearest hundredth, a tie going to the even one
Round2(x) ==
    LET scaled == x[1] * 100
        q == scaled \div x[2]
        rem == scaled % x[2]
    IN  IF 2 * rem < x[2] THEN Frac(q, 100)
        ELSE IF 2 * rem > x[2] THEN Frac(q + 1, 100)
        ELSE IF q % 2 = 0 THEN Frac(q, 100) ELSE Frac(q + 1, 100)

\* rows_after.sort(key=lambda x: x[0]): stable, ascending by row number
RECURSIVE InsertByRowNum(_, _)
InsertByRowNum(sorted, x) ==
    IF sorted = << >> THEN <<x>>
    ELSE IF x[1] < Head(sorted)[1] THEN <<x>> \o sorted
    ELSE <<Head(sorted)>> \o InsertByRowNum(Tail(sorted), x)

RECURSIVE SortByRowNum(_)
SortByRowNum(list) ==
    IF list = << >> THEN << >>
    ELSE InsertByRowNum(SortByRowNum(SubSeq(list, 1, Len(list) - 1)), list[Len(list)])

\* _extract_all_rows_after: (row_num, deep copy) of every row after after_row,
\* sorted by row number; sheet_data is left as it is
ExtractAllRowsAfter(sheet, after_row) ==
    LET rows_after == SelectSeq(sheet, LAMBDA row : row.r > after_row)
    IN  SortByRowNum([i \in 1..Len(rows_after) |-> <<rows_after[i].r, rows_after[i]>>])

\* _clear_product_rows: sheet_data without the rows start_row .. end_row
ClearProductRows(sheet, start_row, end_row) ==
    SelectSeq(sheet, LAMBDA row : ~(start_row <= row.r /\ row.r <= end_row))

\* _insert_row_in_order: before the first row whose number is greater than
\* row_num, at the end when there is none
InsertRowInOrder(sheet, new_row, row_num) ==
    IF \E i \in 1..Len(sheet) : sheet[i].r > row_num
    THEN LET i == CHOOSE k \in 1..Len(sheet) :
                      /\ sheet[k].r > row_num
                      /\ \A j \in 1..(k - 1) : ~(sheet[j].r > row_num)
         IN  SubSeq(sheet, 1, i - 1) \o <<new_row>> \o SubSeq(sheet, i, Len(sheet))
    ELSE Append(sheet, new_row)

\* _add_cell
AddCell(col_letter, row_num, value, cell_type) ==
    [r |-> <<col_letter>> \o Digits(row_num),
     t |-> IF cell_type = "n" THEN "n" ELSE "inlineStr",
     v |-> value]

\* the derived fields of one product, as _insert_product_rows computes them
Rate(product) == Num(DictGet(product, "price", 0))
Dis(product) == FDiv(Num(DictGet(product, "tax", 0)), Num(100))
DiscountedRate(product) == FMul(Rate(product), FSub(Num(1), Dis(product)))
Qty == 1
Gst == Frac(18, 100)
Amount(product) == FMul(DiscountedRate(product), Num(Qty))
GVal(product) == FMul(Amount(product), Gst)
GAmt(product) == FAdd(Amount(product), GVal(product))

\* _create_row_element for product number sno
CreateRowElement(row_num, sno, product) ==
    [r |-> row_num, origin |-> <<"product", sno>>,
     cells |-> <<AddCell("A", row_num, sno, "n"),
                 AddCell("B", row_num, DictGet(product, "name", ""), "s"),
                 AddCell("C", row_num, DictGet(product, "cas_number", ""), "s"),
                 AddCell("D", row_num, DictGet(product, "hs_code", ""), "s"),
                 AddCell("E", row_num, DictGet(product, "part", ""), "s"),
                 AddCell("F", row_num, DictGet(product, "packing", ""), "s"),
                 AddCell("G", row_num, Rate(product), "n"),
                 AddCell("H", row_num, Dis(product), "n"),
                 AddCell("I", row_num, DiscountedRate(product), "n"),
                 AddCell("J", row_num, Qty, "n"),
                 AddCell("K", row_num, Amount(product), "n"),
                 AddCell("L", row_num, Gst, "n"),
                 AddCell("M", row_num, GVal(product), "n"),
                 AddCell("N", row_num, GAmt(product), "n")>>]

\* the row _insert_total_row builds
TotalRow(row_num, total_amount) ==
    [r |-> row_num, origin |-> <<"total", 0>>,
     cells |-> <<AddCell("A", row_num, "TOTAL", "s"),
                 AddCell("N", row_num, Round2(total_amount), "n")>>]

\* col_letter = ''.join([c for c in cell_ref if c.isalpha()])
ColLetter(cell_ref) == SelectSeq(cell_ref, IsAlpha)

\* f"{col_letter}{current_row}"
NewCellRef_Stale(cell_ref, row_num) == cell_ref
NewCellRef(cell_ref, row_num) == ColLetter(cell_ref) \o Digits(row_num)

\* the cell _insert_moved_content builds from a cell of a copied row
MovedCell(cell, row_num) ==
    IF "r" \in DOMAIN cell /\ cell.r # << >>
    THEN [cell EXCEPT !.r = NewCellRef(cell.r, row_num)]
    ELSE cell

\* the row _insert_moved_content builds from a copied row: a new element
\* with the `r` attribute only, and the rebuilt cells
MovedRow(row_element, row_num) ==
    [r |-> row_num, origin |-> <<"moved", row_element.origin[2]>>,
     cells |-> [k \in 1..Len(row_element.cells) |->
                    MovedCell(row_element.cells[k], row_num)]]

QuoteInit ==
    /\ ChunkIdle
    /\ SearchIdle
    /\ FormatIdle
    /\ ApiIdle
    /\ EndpointIdle
    /\ products \in ProductLists
    /\ worksheet_found \in BOOLEAN
    /\ template \in IF worksheet_found THEN Templates ELSE {<< >>}
    /\ sheet_data = template
    /\ content_after_23 = << >>
    /\ current_row = 0
    /\ next_item = 0
    /\ total_gamt = 0
    /\ total_row_num = 0
    /\ qpc = "call"

\* Entry of _update_worksheet_xml: the early returns, the copy of the rows
\* after row 23, the removal of rows 15 .. 23, and the locals of
\* _insert_product_rows.
UpdateWorksheetXml ==
    /\ qpc = "call"
    /\ IF ~worksheet_found
       THEN /\ qpc' = "done"
            /\ UNCHANGED <<sheet_data, content_after_23, current_row, next_item,
                           total_gamt>>
       ELSE /\ content_after_23' = ExtractAllRowsAfter(sheet_data, LastTemplateProductRow)
            /\ sheet_data' = ClearProductRows(sheet_data, FirstProductRow,
                                              LastTemplateProductRow)
            /\ current_row' = FirstProductRow
            /\ total_gamt' = Num(0)
            /\ next_item' = 1
            /\ qpc' = "products"
    /\ UNCHANGED <<products, worksheet_found, template, total_row_num>>
    /\ UNCHANGED <<chunkVars, searchVars, formatVars, apiVars, endpointVars>>

\* One turn of `for i, product in enumerate(products, 1)`.
InsertProductRow ==
    /\ qpc = "products"
    /\ next_item <= Len(products)
    /\ LET product == products[next_item]
           row == CreateRowElement(current_row, next_item, product)
       IN  /\ sheet_data' = InsertRowInOrder(sheet_data, row, current_row)
           /\ total_gamt' = FAdd(total_gamt, GAmt(product))
    /\ current_row' = current_row + 1
    /\ next_item' = next_item + 1
    /\ UNCHANGED <<products, worksheet_found, template, content_after_23, total_row_num,
                   qpc>>
    /\ UNCHANGED <<chunkVars, searchVars, formatVars, apiVars, endpointVars>>

\* _insert_product_rows returns (current_row - 1, total_gamt); the TOTAL row
\* is inserted in the row after the last product row, and
\* _insert_moved_content begins when there are copied rows.
InsertTotalRow ==
    /\ qpc = "products"
    /\ next_item > Len(products)
    /\ LET last_product_row == current_row - 1
       IN  total_row_num' = last_product_row + 1
    /\ sheet_data' = InsertRowInOrder(sheet_data, TotalRow(total_row_num', total_gamt),
                                      total_row_num')
    /\ current_row' = IF content_after_23 # << >> THEN total_row_num' + 1 ELSE current_row
    /\ next_item' = 1
    /\ qpc' = "moving"
    /\ UNCHANGED <<products, worksheet_found, template, content_after_23, total_gamt>>
    /\ UNCHANGED <<chunkVars, searchVars, formatVars, apiVars, endpointVars>>

\* One turn of `for original_row_num, row_element in rows_data`.
InsertMovedRow ==
    /\ qpc = "moving"
    /\ next_item <= Len(content_after_23)
    /\ sheet_data' = InsertRowInOrder(sheet_data,
                                      MovedRow(content_after_23[next_item][2], current_row),
                                      current_row)
    /\ current_row' = current_row + 1
    /\ next_item' = next_item + 1
    /\ UNCHANGED <<products, worksheet_found, template, content_after_23, total_gamt,
                   total_row_num, qpc>>
    /\ UNCHANGED <<chunkVars, searchVars, formatVars, apiVars, endpointVars>>

\* tree.write: the worksheet is written back and the call returns.
WriteBack ==
    /\ qpc = "moving"
    /\ next_item > Len(content_after_23)
    /\ qpc' = "done"
    /\ UNCHANGED <<products, worksheet_found, template, sheet_data, content_after_23,
                   current_row, next_item, total_gamt, total_row_num>>
    /\ UNCHANGED <<chunkVars, searchVars, formatVars, apiVars, endpointVars>>

QuoteNext ==
    \/ UpdateWorksheetXml
    \/ InsertProductRow
    \/ InsertTotalRow
    \/ InsertMovedRow
    \/ WriteBack

QuoteSpec == QuoteInit /\ [][QuoteNext]_vars

----------------------------------------------------------------------------
(* Claims about XMLQuoteGenerator._update_worksheet_xml *)

Updated == qpc = "done" /\ worksheet_found

\* the template's rows after row 23, in template order
RowsAfter23 == SelectSeq(template, LAMBDA row : row.r > 23)

\* positions of sheet_data holding template row n or an element made from it
Appearances(n) ==
    {i \in 1..Len(sheet_data) :
        sheet_data[i].origin \in {<<"template", n>>, <<"moved", n>>}}

\* positions of sheet_data holding the element of the given origin
Placed(origin) == {i \in 1..Len(sheet_data) : sheet_data[i].origin = origin}

\* C28: after _update_worksheet_xml, for any number of products and of
\* template rows after row 23, the rows of sheetData have pairwise distinct
\* row numbers in strictly ascending order, and each template row that was
\* after row 23 appears exactly once (moved, not duplicated).
C28_RowsDistinctAscending ==
    Updated =>
        /\ \A i \in 1..(Len(sheet_data) - 1) : sheet_data[i].r < sheet_data[i + 1].r
        /\ \A k \in 1..Len(RowsAfter23) :
              Cardinality(Appearances(RowsAfter23[k].r)) = 1

\* C29: for n products, product i is in row 14 + i, the TOTAL row in row
\* 15 + n, and the copies of the template rows that followed row 23 in the
\* consecutive rows from 16 + n on in their original order, each with the
\* cells of its template row, every cell reference keeping its column
\* letters and carrying the new row number.
C29_Placement ==
    Updated =>
        LET n == Len(products)
        IN  /\ \A i \in 1..n :
                  /\ Cardinality(Placed(<<"product", i>>)) = 1
                  /\ \A at \in Placed(<<"product", i>>) :
                        /\ sheet_data[at].r = 14 + i
                        /\ sheet_data[at].cells[1].v = i
                        /\ sheet_data[at].cells[2].v = products[i].name
                        /\ \A c \in 1..Len(sheet_data[at].cells) :
                              SubSeq(sheet_data[at].cells[c].r, 2, 3) = Digits(14 + i)
            /\ Cardinality(Placed(<<"total", 0>>)) = 1
            /\ \A at \in Placed(<<"total", 0>>) :
                  /\ sheet_data[at].r = 15 + n
                  /\ sheet_data[at].cells[1].r = <<"A">> \o Digits(15 + n)
                  /\ sheet_data[at].cells[1].v = "TOTAL"
            /\ \A k \in 1..Len(RowsAfter23) :
                  LET old == RowsAfter23[k]
                  IN  /\ Cardinality(Placed(<<"moved", old.r>>)) = 1
                      /\ \A at \in Placed(<<"moved", old.r>>) :
                            LET new == sheet_data[at]
                            IN  /\ new.r = 15 + n + k
                                /\ Len(new.cells) = Len(old.cells)
                                /\ \A c \in 1..Len(old.cells) :
                                      /\ new.cells[c].v = old.cells[c].v
                                      /\ "r" \in DOMAIN old.cells[c] =>
                                            new.cells[c].r =
                                                ColLetter(old.cells[c].r) \o Digits(new.r)
                                      /\ "r" \notin DOMAIN old.cells[c] =>
                                            "r" \notin DOMAIN new.cells[c]

\* two products were placed in a template with two rows after row 23, whose
\* copies are in rows 18 and 19
C29_Witness ==
    /\ Updated
    /\ Len(products) = 2
    /\ Len(RowsAfter23) = 2
    /\ \E i, j \in 1..Len(sheet_data) :
          /\ sheet_data[i].origin = <<"moved", 24>>
          /\ sheet_data[i].r = 18
          /\ sheet_data[i].cells[2].r = <<"A", "B", "1", "8">>
          /\ sheet_data[j].origin = <<"moved", 30>>
          /\ sheet_data[j].r = 19

\* the number in column N of the TOTAL row
WrittenTotal ==
    LET at == CHOOSE i \in 1..Len(sheet_data) : sheet_data[i].origin = <<"total", 0>>
    IN  sheet_data[at].cells[2].v

\* sum(float(p['price']) * (1 + float(p['tax']) / 100) for p in products)
RECURSIVE TestTotal(_)
TestTotal(ps) ==
    IF ps = << >> THEN Num(0)
    ELSE FAdd(TestTotal(SubSeq(ps, 1, Len(ps) - 1)),
              FMul(Num(ps[Len(ps)].price),
                   FAdd(Num(1), FDiv(Num(ps[Len(ps)].tax), Num(100)))))

\* C30: the grand total written to the TOTAL row equals the total the test
\* computes for verification, the sum over the products of
\* price * (1 + tax / 100).
C30_TotalMatchesTest ==
    Updated => WrittenTotal = TestTotal(products)

====
